---- MODULE Spec2Model ----
(***************************************************************************)
(* The umbrella block file system (src/umbrella/src) and the beach shell   *)
(* commands that drive it (src/beach/src/shell/expr/args/mod.rs).          *)
(*                                                                         *)
(* A device is a host file named <stem>.<block_size>.dev.  The model keeps *)
(* each block of a file as its bytes with the trailing zero bytes dropped  *)
(* (a block is zero-padded to block_size when it is read), so everything   *)
(* that reaches the disk goes through the byte encoders below and          *)
(* everything that is mounted comes back through the decoders.             *)
(*                                                                         *)
(* The file system is the one that umbrella's lib.rs exports, fs.rs; the   *)
(* use lines of the shell still name an older module, umbrella::block,     *)
(* whose FileSystem has the same operations.                               *)
(*                                                                         *)
(* Options are sequences: <<>> is None and <<x>> is Some(x).               *)
(***************************************************************************)
EXTENDS Integers, Sequences, FiniteSets, TLC

VARIABLES
    disk,        \* host files: [Files -> Option([len, blocks, writes_left])]
    current_fs,  \* Env.current_fs: Option(FileSystem)
    out,         \* what the last operation reported (stdout / stderr / return value)
    last_end,    \* history: per file, how the last session on it ended
    closed,      \* history: per file, whether a close succeeded since the last mount
    formatted,   \* history: per file, the FileSystem that newfs built and closed
    alloc_log,   \* history: the block map at mount and the alloc results since
    test         \* locals of the unit test, or of the session that ends with close

vars == <<disk, current_fs, out, last_end, closed, formatted, alloc_log, test>>

----------------------------------------------------------------------------
(* Program constants *)

BLOCK_PTRS == 8
INODE_COUNT == 10
PTR_BYTES == 8
DEFAULT_BLOCK_SIZE == 1024
MIN_BLOCK_SIZE == 128
SYNCED == 128
FREE == 128
FILE == 64
DIR == 32
LINK == 16
PTR == 8
DATA == 4
UNUSED == 0
MASTER_BLOCK_NUMBER == 0
TEST_BLOCK_COUNT == 128
TEST_BLOCK_SIZE == 128

(* Bounds of the model *)

MaxTime == 1
MaxFree == 11
MaxAllocLog == 7
MaxInode == 0
MaxOffset == 9
MaxLength == 3
MaxN == 20
MaxCalls == 2
MaxBudget == 11
MaxCacheBlock == 12
MaxPtr == 1
MaxDevCount == 2

Stems == {"d"}
Counts == {16}
FsCounts == Counts \cup {TEST_BLOCK_COUNT}
Sizes == {MIN_BLOCK_SIZE}
Files == Stems \X Sizes
Times == 1..MaxTime
FreeTargets == {0} \cup (11..MaxFree) \cup Counts
InodeNums == 0..MaxInode
\* The first offset past the reach of one level of indirection.
FarOffset == BLOCK_PTRS * (TEST_BLOCK_SIZE \div PTR_BYTES)
TreeOffsets == {0} \cup ((BLOCK_PTRS - 1)..MaxOffset) \cup {FarOffset}

None == <<>>
Some(x) == <<x>>
IsSome(o) == o # <<>>
Get(o) == o[1]

Ok(v) == [tag |-> "ok", val |-> v]
Err(e) == [tag |-> "err", err |-> e]
Panic == [tag |-> "panic"]

Min(a, b) == IF a < b THEN a ELSE b
Max(a, b) == IF a > b THEN a ELSE b

RECURSIVE Pow(_, _)
Pow(b, e) == IF e = 0 THEN 1 ELSE b * Pow(b, e - 1)

----------------------------------------------------------------------------
(* Bytes: fixed-width little-endian integers, as bincode and the cache's   *)
(* to_u8 / from_u8 lay them out.                                           *)

\* The w bytes of n, the least significant first; what is left of a zero
\* is zeros.
RECURSIVE LE(_, _)
LE(n, w) ==
    IF w = 0 THEN <<>>
    ELSE IF n = 0 THEN [k \in 1..w |-> 0]
    ELSE <<n % 256>> \o LE(n \div 256, w - 1)

\* Byte k (from 1) of a block kept without its trailing zeros.
ByteAt(blk, k) == IF k <= Len(blk) THEN blk[k] ELSE 0

\* The integer in the w bytes of blk from offset off; the bytes past the
\* kept ones are zeros.
RECURSIVE FromLE(_, _, _)
FromLE(blk, off, w) ==
    IF w = 0 \/ off >= Len(blk) THEN 0
    ELSE ByteAt(blk, off + 1) + 256 * FromLE(blk, off + 1, w - 1)

\* The index of the last byte of s that is not zero, or 0.
LastNonZero(s) ==
    LET nz == {k \in 1..Len(s) : s[k] # 0}
    IN  IF nz = {} THEN 0 ELSE CHOOSE k \in nz : \A j \in nz : j <= k

\* A buffer without its trailing zero bytes.
Trim(s) == SubSeq(s, 1, LastNonZero(s))

RECURSIVE Concat(_)
Concat(ss) == IF ss = <<>> THEN <<>> ELSE Head(ss) \o Concat(Tail(ss))

EncodeMasterBlock(mb) ==
    LE(mb.block_size, 2) \o LE(mb.block_count, 8) \o LE(mb.inode_count, 2)
        \o LE(mb.block_map, 8) \o LE(mb.inode_map, 8) \o LE(mb.flags, 1)

DecodeMasterBlock(blk) ==
    [block_size  |-> FromLE(blk, 0, 2),
     block_count |-> FromLE(blk, 2, 8),
     inode_count |-> FromLE(blk, 10, 2),
     block_map   |-> FromLE(blk, 12, 8),
     inode_map   |-> FromLE(blk, 20, 8),
     flags       |-> FromLE(blk, 28, 1)]

EncodeTime(t) == LE(t.secs, 8) \o LE(t.nanos, 4)
DecodeTime(blk, off) == [secs |-> FromLE(blk, off, 8), nanos |-> FromLE(blk, off + 8, 4)]

EncodeINode(n) ==
    EncodeTime(n.cdate) \o EncodeTime(n.mdate) \o LE(n.flags, 1) \o LE(n.perms, 2)
        \o LE(n.length, 8) \o LE(n.level, 1)
        \o Concat([k \in 1..BLOCK_PTRS |-> LE(n.block_ptrs[k], PTR_BYTES)])

DecodeINode(blk) ==
    [cdate      |-> DecodeTime(blk, 0),
     mdate      |-> DecodeTime(blk, 12),
     flags      |-> FromLE(blk, 24, 1),
     perms      |-> FromLE(blk, 25, 2),
     length     |-> FromLE(blk, 27, 8),
     level      |-> FromLE(blk, 35, 1),
     block_ptrs |-> [k \in 1..BLOCK_PTRS |-> FromLE(blk, 36 + PTR_BYTES * (k - 1), PTR_BYTES)]]

\* cache.rs to_u8 / from_u8: a Vec<BlockNumber> seen as bytes and back.
to_u8(pointers) == Concat([k \in 1..Len(pointers) |-> LE(pointers[k], PTR_BYTES)])
from_u8(blk, len) == [k \in 1..(len \div PTR_BYTES) |-> FromLE(blk, PTR_BYTES * (k - 1), PTR_BYTES)]

\* BitVec::to_bytes: eight bits a byte, the first bit the most significant.
to_bytes(bits) ==
    [j \in 1..((Len(bits) + 7) \div 8) |->
        LET Bit(b) == IF 8 * (j - 1) + b + 1 <= Len(bits) /\ bits[8 * (j - 1) + b + 1]
                      THEN Pow(2, 7 - b) ELSE 0
        IN  Bit(0) + Bit(1) + Bit(2) + Bit(3) + Bit(4) + Bit(5) + Bit(6) + Bit(7)]

\* BitVec::from_bytes: bit i (from 0) of a run of bytes.
from_bytes_bit(blk, i) == (ByteAt(blk, (i \div 8) + 1) \div Pow(2, 7 - (i % 8))) % 2 = 1

----------------------------------------------------------------------------
(* BlockDevice (device.rs).  A file is [len, blocks, writes_left]: its     *)
(* length in bytes, its blocks, block b at index b + 1, and the writes     *)
(* that the medium still takes before write_all fails with an io::Error    *)
(* (None: it takes them all).                                              *)

\* handle.write / handle.write_all: does the medium take one more write,
\* and what it takes after that one.
Writable(f) == ~IsSome(f.writes_left) \/ Get(f.writes_left) > 0
Written(f) == IF IsSome(f.writes_left) THEN Some(Get(f.writes_left) - 1) ELSE None

NoBlocks(n) == [k \in 1..n |-> <<>>]

DeviceFile(stem, block_size) == <<stem, block_size>>

\* A create that cuts an existing file down to size * count bytes.
BlockDeviceCreateTruncates(d, stem, count, optional_size) ==
    LET size == IF IsSome(optional_size) THEN Get(optional_size) ELSE DEFAULT_BLOCK_SIZE
        file == DeviceFile(stem, size)
        old  == IF IsSome(d[file]) THEN Get(d[file])
                ELSE [len |-> 0, blocks |-> <<>>, writes_left |-> None]
        kept == SubSeq(old.blocks, 1, Min(count, Len(old.blocks)))
    IN  IF count <= 0 THEN [tag |-> "err", err |-> "Size", disk |-> d]
        ELSE IF size <= 0 THEN [tag |-> "err", err |-> "Size", disk |-> d]
        ELSE IF ~Writable(old) THEN [tag |-> "err", err |-> "IO", disk |-> d]
        ELSE [tag    |-> "ok",
              device |-> [file |-> file, block_size |-> size, block_count |-> count],
              disk   |-> [d EXCEPT ![file] =
                            Some([len    |-> size * count,
                                  blocks |-> kept \o NoBlocks(count - Len(kept)),
                                  writes_left |-> Written(old)])]]

\* BlockDevice::create: the file is opened (created when missing, never
\* truncated) and one zero byte is written at position size * count - 1.
BlockDeviceCreate(d, stem, count, optional_size) ==
    LET size == IF IsSome(optional_size) THEN Get(optional_size) ELSE DEFAULT_BLOCK_SIZE
        file == DeviceFile(stem, size)
        old  == IF IsSome(d[file]) THEN Get(d[file])
                ELSE [len |-> 0, blocks |-> <<>>, writes_left |-> None]
        len  == Max(old.len, size * count)
        grown == old.blocks \o NoBlocks((len \div size) - Len(old.blocks))
        new  == [len    |-> len,
                 blocks |-> [grown EXCEPT ![count] =
                               IF Len(@) = size THEN Trim(SubSeq(@, 1, size - 1)) ELSE @],
                 writes_left |-> Written(old)]
    IN  IF count <= 0 THEN [tag |-> "err", err |-> "Size", disk |-> d]
        ELSE IF size <= 0 THEN [tag |-> "err", err |-> "Size", disk |-> d]
        ELSE IF ~Writable(old) THEN [tag |-> "err", err |-> "IO", disk |-> d]
        ELSE [tag    |-> "ok",
              device |-> [file |-> file, block_size |-> size, block_count |-> count],
              disk   |-> [d EXCEPT ![file] = Some(new)]]

\* BlockDevice::open: block_size from the name, block_count from the length.
BlockDeviceOpen(d, file) ==
    IF ~IsSome(d[file]) THEN Err("IO")
    ELSE [tag    |-> "ok",
          device |-> [file |-> file, block_size |-> file[2],
                      block_count |-> Get(d[file]).len \div file[2]]]

\* A seek that checks the block number only.
SeekOkCountOnly(device, block_num, buf_len) == ~(device.block_count <= block_num)

\* BlockDevice::seek: the two preconditions of a read or a write.
SeekOk(device, block_num, buf_len) ==
    /\ ~(device.block_count <= block_num)
    /\ device.block_size = buf_len

\* BlockDevice::seek: the position the handle is moved to.
SeekPos(device, block_num) == block_num * device.block_size

\* A read that does not move the handle from the start of the file.
DeviceReadFirst(d, device, block_num, buf_len) ==
    IF ~SeekOk(device, block_num, buf_len) THEN Err("Size")
    ELSE IF Get(d[device.file]).blocks = <<>> THEN Err("IO")
    ELSE Ok(Get(d[device.file]).blocks[1])

\* BlockDevice::read into a buffer of buf_len bytes.
DeviceRead(d, device, block_num, buf_len) ==
    IF ~SeekOk(device, block_num, buf_len) THEN Err("Size")
    ELSE IF block_num + 1 > Len(Get(d[device.file]).blocks) THEN Err("IO")
    ELSE Ok(Get(d[device.file]).blocks[block_num + 1])

\* BlockDevice::write of a buffer of buf_len bytes holding buf then zeros.
DeviceWrite(d, device, block_num, buf, buf_len) ==
    IF ~SeekOk(device, block_num, buf_len) THEN [tag |-> "err", err |-> "Size", disk |-> d]
    ELSE LET f == Get(d[device.file])
             n == Max(Len(f.blocks), block_num + 1)
             grown == f.blocks \o NoBlocks(n - Len(f.blocks))
         IN  IF ~Writable(f) THEN [tag |-> "err", err |-> "IO", disk |-> d]
             ELSE [tag  |-> "ok",
                   disk |-> [d EXCEPT ![device.file] =
                               Some([len    |-> Max(f.len, (block_num + 1) * device.block_size),
                                     blocks |-> [grown EXCEPT ![block_num + 1] = Trim(buf)],
                                     writes_left |-> Written(f)])]]

\* A run of writes, each <<block_num, buf, buf_len>>, stopped by the first
\* one that fails (the ? operator).
RECURSIVE WriteAll(_, _, _)
WriteAll(d, device, writes) ==
    IF writes = <<>> THEN [tag |-> "ok", disk |-> d]
    ELSE LET w == Head(writes)
             r == DeviceWrite(d, device, w[1], w[2], w[3])
         IN  IF r.tag = "ok" THEN WriteAll(r.disk, device, Tail(writes)) ELSE r

\* Spec section 4.1: block_numbers_per_block and block_numbers_per_level.
block_numbers_per_block(device) == device.block_size \div PTR_BYTES
block_numbers_per_level(device, level) == Pow(block_numbers_per_block(device), level)

----------------------------------------------------------------------------
(* MasterBlock (fs.rs 17-56) *)

MasterBlockNew(block_size, block_count, inode_count) ==
    [block_size  |-> block_size,
     block_count |-> block_count,
     inode_count |-> inode_count,
     block_map   |-> 1,
     inode_map   |-> 2 + (block_count \div block_size) \div 8,
     flags       |-> SYNCED]

block_map_blocks(mb) == 1 + (mb.block_count \div mb.block_size) \div 8

Contains(flags, bit) == (flags \div bit) % 2 = 1

\* A set that never removes the bit.
SetFlagNeverClears(flags, bit, status) ==
    IF status /\ ~Contains(flags, bit) THEN flags + bit ELSE flags

SetFlag(flags, bit, status) ==
    IF status THEN (IF Contains(flags, bit) THEN flags ELSE flags + bit)
    ELSE (IF Contains(flags, bit) THEN flags - bit ELSE flags)

\* MasterBlock::write: the image in a buffer of mb.block_size bytes, to block 0.
MasterBlockWrite(mb, d, device) ==
    LET buf == EncodeMasterBlock(mb)
    IN  IF Len(buf) > mb.block_size
        THEN [tag |-> "err", err |-> "Bincode", disk |-> d]
        ELSE DeviceWrite(d, device, MASTER_BLOCK_NUMBER, buf, mb.block_size)

\* A write_sync_status that sets the flag whatever status is.
WriteSyncStatusAlways(mb, d, device, status) ==
    LET master_block == [mb EXCEPT !.flags = SetFlag(mb.flags, SYNCED, TRUE)]
        w == MasterBlockWrite(master_block, d, device)
    IN  IF w.tag = "ok"
        THEN [tag |-> "ok", master_block |-> master_block, disk |-> w.disk]
        ELSE [tag |-> "err", err |-> w.err, master_block |-> mb, disk |-> w.disk]

\* A write_sync_status that clears the flag whatever status is.
WriteSyncStatusIgnored(mb, d, device, status) ==
    LET master_block == [mb EXCEPT !.flags = SetFlag(mb.flags, SYNCED, FALSE)]
        w == MasterBlockWrite(master_block, d, device)
    IN  IF w.tag = "ok"
        THEN [tag |-> "ok", master_block |-> master_block, disk |-> w.disk]
        ELSE [tag |-> "err", err |-> w.err, master_block |-> mb, disk |-> w.disk]

\* MasterBlock::write_sync_status: the flag is kept in memory only when the
\* write succeeded.
write_sync_status(mb, d, device, status) ==
    LET master_block == [mb EXCEPT !.flags = SetFlag(mb.flags, SYNCED, status)]
        w == MasterBlockWrite(master_block, d, device)
    IN  IF w.tag = "ok"
        THEN [tag |-> "ok", master_block |-> master_block, disk |-> w.disk]
        ELSE [tag |-> "err", err |-> w.err, master_block |-> mb, disk |-> w.disk]

----------------------------------------------------------------------------
(* BlockMap (fs.rs 61-96): bit b of the map is block_map[b + 1].           *)

BlockMapNew(block_count) == [k \in 1..block_count |-> FALSE]

BlockMapSet(block_map, block_number, b) == [block_map EXCEPT ![block_number + 1] = b]

HasFree(block_map) == \E k \in 1..Len(block_map) : ~block_map[k]

\* A search that answers the master block.
FindFreeMaster(block_map) == MASTER_BLOCK_NUMBER

\* A find_free that scans from the last bit.
FindFreeHighest(block_map) ==
    (CHOOSE k \in 1..Len(block_map) :
        ~block_map[k] /\ \A j \in (k + 1)..Len(block_map) : block_map[j]) - 1

find_free(block_map) ==
    (CHOOSE k \in 1..Len(block_map) :
        ~block_map[k] /\ \A j \in 1..(k - 1) : block_map[j]) - 1

\* An alloc that does not set the bit it returns.
BlockMapAllocNoSet(block_map) ==
    IF HasFree(block_map)
    THEN [tag |-> "ok", val |-> find_free(block_map), block_map |-> block_map]
    ELSE [tag |-> "err", err |-> "Size", block_map |-> block_map]

BlockMapAlloc(block_map) ==
    IF HasFree(block_map)
    THEN [tag |-> "ok", val |-> find_free(block_map),
          block_map |-> BlockMapSet(block_map, find_free(block_map), TRUE)]
    ELSE [tag |-> "err", err |-> "Size", block_map |-> block_map]

BlockMapFree(block_map, block_number) == BlockMapSet(block_map, block_number, FALSE)

----------------------------------------------------------------------------
(* INode and INodeMap (fs.rs 176-239): inode i is inode_map[i + 1].        *)

NoPtrs == [k \in 1..BLOCK_PTRS |-> MASTER_BLOCK_NUMBER]

SystemTime(t) == [secs |-> t, nanos |-> 0]

INodeNew(now) ==
    [cdate |-> now, mdate |-> now, flags |-> FREE, perms |-> UNUSED,
     length |-> 0, level |-> 0, block_ptrs |-> NoPtrs]

INodeMapNew(inode_count, now) == [k \in 1..inode_count |-> INodeNew(now)]

INodeHasFree(inode_map) == \E k \in 1..Len(inode_map) : inode_map[k].flags = FREE

\* A search that takes the first slot whose flags contain FREE.
INodeFindFreeContains(inode_map) ==
    (CHOOSE k \in 1..Len(inode_map) :
        /\ (inode_map[k].flags \div FREE) % 2 = 1
        /\ \A j \in 1..(k - 1) : (inode_map[j].flags \div FREE) % 2 = 0) - 1

INodeFindFree(inode_map) ==
    (CHOOSE k \in 1..Len(inode_map) :
        inode_map[k].flags = FREE /\ \A j \in 1..(k - 1) : inode_map[j].flags # FREE) - 1

INodeMapAlloc(inode_map, flags, now) ==
    IF INodeHasFree(inode_map)
    THEN [val       |-> Some(INodeFindFree(inode_map)),
          inode_map |-> [inode_map EXCEPT ![INodeFindFree(inode_map) + 1] =
                            [@ EXCEPT !.flags = flags, !.mdate = now]]]
    ELSE [val |-> None, inode_map |-> inode_map]

\* A free that also empties the inode.
INodeMapFreeResets(inode_map, block_number) ==
    [inode_map EXCEPT ![block_number + 1] =
        [@ EXCEPT !.flags = FREE, !.length = 0, !.level = 0, !.block_ptrs = NoPtrs]]

INodeMapFree(inode_map, block_number) ==
    [inode_map EXCEPT ![block_number + 1] = [@ EXCEPT !.flags = FREE]]

----------------------------------------------------------------------------
(* Cache (cache.rs): entries is a function from the cached block numbers   *)
(* to [kind |-> "Block", block] or [kind |-> "Pointers", pointers].        *)

NoEntries == [b \in {} |-> 0]

Insert(entries, block_num, entry) ==
    [b \in DOMAIN entries \cup {block_num} |-> IF b = block_num THEN entry ELSE entries[b]]

\* CacheEntry::bytes
EntryBytes(entry) ==
    IF entry.kind = "Block" THEN entry.block ELSE to_u8(entry.pointers)

EntryLen(entry, device) ==
    IF entry.kind = "Block" THEN device.block_size ELSE Len(entry.pointers) * PTR_BYTES

\* A read that serves a Pointers entry as bytes.
ReadAnyKind(entries, d, device, block_num) ==
    IF block_num \in DOMAIN entries
    THEN [tag |-> "ok", val |-> EntryBytes(entries[block_num]), entries |-> entries]
    ELSE LET r == DeviceRead(d, device, block_num, device.block_size)
         IN  IF r.tag # "ok" THEN [tag |-> "err", err |-> r.err, entries |-> entries]
             ELSE [tag |-> "ok", val |-> r.val,
                   entries |-> Insert(entries, block_num, [kind |-> "Block", block |-> r.val])]

\* Cache::read
read(entries, d, device, block_num) ==
    IF block_num \in DOMAIN entries
    THEN IF entries[block_num].kind = "Block"
         THEN [tag |-> "ok", val |-> entries[block_num].block, entries |-> entries]
         ELSE [tag |-> "err", err |-> "CacheInvalid", entries |-> entries]
    ELSE LET r == DeviceRead(d, device, block_num, device.block_size)
         IN  IF r.tag # "ok" THEN [tag |-> "err", err |-> r.err, entries |-> entries]
             ELSE [tag |-> "ok", val |-> r.val,
                   entries |-> Insert(entries, block_num, [kind |-> "Block", block |-> r.val])]

\* A read_pointers that turns a Block entry into a Pointers entry.
ReadPointersConvert(entries, d, device, block_num) ==
    IF block_num \in DOMAIN entries /\ entries[block_num].kind = "Pointers"
    THEN [tag |-> "ok", val |-> entries[block_num].pointers, entries |-> entries]
    ELSE LET r == DeviceRead(d, device, block_num, device.block_size)
         IN  IF r.tag # "ok" THEN [tag |-> "err", err |-> r.err, entries |-> entries]
             ELSE LET pointers == from_u8(r.val, device.block_size)
                  IN  [tag |-> "ok", val |-> pointers,
                       entries |-> Insert(entries, block_num,
                                          [kind |-> "Pointers", pointers |-> pointers])]

\* Cache::read_pointers
read_pointers(entries, d, device, block_num) ==
    IF block_num \in DOMAIN entries
    THEN IF entries[block_num].kind = "Block"
         THEN [tag |-> "err", err |-> "CacheInvalid", entries |-> entries]
         ELSE [tag |-> "ok", val |-> entries[block_num].pointers, entries |-> entries]
    ELSE LET r == DeviceRead(d, device, block_num, device.block_size)
         IN  IF r.tag # "ok" THEN [tag |-> "err", err |-> r.err, entries |-> entries]
             ELSE IF device.block_size % PTR_BYTES # 0
                  THEN [tag |-> "panic", entries |-> entries]
                  ELSE LET pointers == from_u8(r.val, device.block_size)
                       IN  [tag |-> "ok", val |-> pointers,
                            entries |-> Insert(entries, block_num,
                                               [kind |-> "Pointers", pointers |-> pointers])]

\* Cache::write_pointers
write_pointers(entries, block_num, pointers) ==
    Insert(entries, block_num, [kind |-> "Pointers", pointers |-> pointers])

----------------------------------------------------------------------------
(* FileSystem (fs.rs 274-463): [master_block, block_map, inode_map,        *)
(* entries, device]; entries and device are its Cache.                     *)

\* Sequence::new(MASTER_BLOCK_NUMBER, end) yields 0 .. end - 1.
SequenceNew(start, end) == start..(end - 1)

FileSystemNew(device, now) ==
    LET master_block   == MasterBlockNew(device.block_size, device.block_count, INODE_COUNT)
        claimed_blocks == block_map_blocks(master_block) + INODE_COUNT
        claimed        == SequenceNew(MASTER_BLOCK_NUMBER, claimed_blocks)
    IN  IF \E i \in claimed : i >= device.block_count THEN Panic
        ELSE [tag |-> "ok",
              file_system |->
                 [master_block |-> master_block,
                  block_map    |-> [k \in 1..device.block_count |-> (k - 1) \in claimed],
                  inode_map    |-> INodeMapNew(INODE_COUNT, now),
                  entries      |-> NoEntries,
                  device       |-> device]]

RECURSIVE SortedSeq(_)
SortedSeq(S) ==
    IF S = {} THEN <<>>
    ELSE LET m == CHOOSE x \in S : \A y \in S : x <= y
         IN  <<m>> \o SortedSeq(S \ {m})

\* Bitmap writes without the zero-padded rest.
BitmapWritesNoRest(mb, bytes) ==
    LET bs   == mb.block_size
        full == Len(bytes) \div bs
    IN  [k \in 1..full |-> <<mb.block_map + k - 1, SubSeq(bytes, (k - 1) * bs + 1, k * bs), bs>>]

\* The bitmap blocks that FileSystem::write writes: every full block, and
\* the zero-padded rest when there is one.
BitmapWrites(mb, bytes) ==
    LET bs   == mb.block_size
        full == Len(bytes) \div bs
    IN  [k \in 1..full |-> <<mb.block_map + k - 1, SubSeq(bytes, (k - 1) * bs + 1, k * bs), bs>>]
        \o (IF Len(bytes) % bs # 0
            THEN << <<mb.block_map + full, SubSeq(bytes, full * bs + 1, Len(bytes)), bs>> >>
            ELSE <<>>)

INodeWrites(mb, inode_map) ==
    [k \in 1..Len(inode_map) |-> <<mb.inode_map + k - 1, EncodeINode(inode_map[k]), mb.block_size>>]

\* The write-back of the cache entries; the entries have distinct blocks,
\* so the order of the HashMap's iteration does not show in the result.
EntryWrites(entries, device) ==
    LET order == SortedSeq(DOMAIN entries)
    IN  [k \in 1..Len(order) |->
            <<order[k], EntryBytes(entries[order[k]]), EntryLen(entries[order[k]], device)>>]

\* FileSystem::write
FileSystemWrite(fs, d) ==
    LET mb    == fs.master_block
        bytes == to_bytes(fs.block_map)
        nodes == INodeWrites(mb, fs.inode_map)
        w1    == WriteAll(d, fs.device, BitmapWrites(mb, bytes))
        w2    == WriteAll(w1.disk, fs.device, nodes)
        w3    == WriteAll(w2.disk, fs.device, EntryWrites(fs.entries, fs.device))
    IN  IF mb.block_size = 0 THEN [tag |-> "panic", disk |-> d]
        ELSE IF w1.tag # "ok" THEN w1
        ELSE IF ~(mb.block_map + Len(bytes) \div mb.block_size < mb.inode_map)
             THEN [tag |-> "panic", disk |-> w1.disk]
        ELSE IF \E k \in 1..Len(nodes) : Len(nodes[k][2]) > mb.block_size
             THEN [tag |-> "err", err |-> "Bincode", disk |-> w1.disk]
        ELSE IF w2.tag # "ok" THEN w2
        ELSE w3

\* The bits that FileSystem::read collects from the bitmap blocks.
ReadBits(d, device, mb) ==
    LET bs      == mb.block_size
        per     == bs * 8
        n       == Min(mb.block_count, block_map_blocks(mb) * per)
        Blk(b)  == DeviceRead(d, device, mb.block_map + b, bs).val
    IN  [i \in 1..n |-> from_bytes_bit(Blk((i - 1) \div per), (i - 1) % per)]

\* FileSystem::read
FileSystemRead(d, device) ==
    LET r0 == DeviceRead(d, device, MASTER_BLOCK_NUMBER, device.block_size)
        mb == DecodeMasterBlock(r0.val)
        bm_reads == {DeviceRead(d, device, mb.block_map + k, mb.block_size).tag :
                        k \in 0..(block_map_blocks(mb) - 1)}
        in_reads == {DeviceRead(d, device, mb.inode_map + k, mb.block_size).tag :
                        k \in 0..(mb.inode_count - 1)}
        nodes == [k \in 1..mb.inode_count |->
                    DecodeINode(DeviceRead(d, device, mb.inode_map + k - 1, mb.block_size).val)]
        sync == write_sync_status(mb, d, device, FALSE)
    IN  IF r0.tag # "ok" THEN [tag |-> "err", err |-> r0.err, disk |-> d]
        ELSE IF mb.block_size = 0 THEN [tag |-> "panic", disk |-> d]
        ELSE IF bm_reads # {} /\ bm_reads # {"ok"} THEN [tag |-> "err", err |-> "Size", disk |-> d]
        ELSE IF ~(mb.block_map + block_map_blocks(mb) <= mb.inode_map)
             THEN [tag |-> "panic", disk |-> d]
        ELSE IF in_reads # {} /\ in_reads # {"ok"} THEN [tag |-> "err", err |-> "Size", disk |-> d]
        ELSE IF sync.tag # "ok" THEN [tag |-> "err", err |-> sync.err, disk |-> sync.disk]
        ELSE [tag         |-> "ok",
              clean_mount |-> Contains(mb.flags, SYNCED),
              file_system |-> [master_block |-> sync.master_block,
                               block_map    |-> ReadBits(d, device, mb),
                               inode_map    |-> nodes,
                               entries      |-> NoEntries,
                               device       |-> device],
              disk        |-> sync.disk]

\* A close that writes SYNCED = TRUE before the flush.
FileSystemCloseSyncFirst(fs, d) ==
    LET s == write_sync_status(fs.master_block, d, fs.device, TRUE)
        w == FileSystemWrite(fs, s.disk)
    IN  IF s.tag # "ok" THEN [tag |-> "err", err |-> s.err, disk |-> s.disk, flushed |-> FALSE]
        ELSE IF w.tag = "panic" THEN [tag |-> "panic", disk |-> w.disk, flushed |-> FALSE]
        ELSE IF w.tag # "ok"
             THEN [tag |-> "err", err |-> w.err, disk |-> w.disk, flushed |-> FALSE]
        ELSE [tag |-> "ok", disk |-> w.disk, flushed |-> TRUE]

\* FileSystem::close; flushed tells whether self.write() returned Ok.
FileSystemClose(fs, d) ==
    LET w == FileSystemWrite(fs, d)
        s == write_sync_status(fs.master_block, w.disk, fs.device, TRUE)
    IN  IF w.tag = "panic" THEN [tag |-> "panic", disk |-> w.disk, flushed |-> FALSE]
        ELSE IF w.tag # "ok"
             THEN [tag |-> "err", err |-> w.err, disk |-> w.disk, flushed |-> FALSE]
        ELSE IF s.tag # "ok"
             THEN [tag |-> "err", err |-> s.err, disk |-> s.disk, flushed |-> TRUE]
        ELSE [tag |-> "ok", disk |-> s.disk, flushed |-> TRUE]

----------------------------------------------------------------------------
(* The indirect tree of an inode (fs.rs 373-462).  Slot k of a pointer     *)
(* array is block_ptrs[k + 1]; a result is Ok(None), Ok(Some(b)),          *)
(* Err(kind) or Panic (an index out of bounds).                            *)

\* rec of lookup_block_num_from_offset
RECURSIVE LookupRec(_, _, _, _, _, _)
LookupRec(entries, d, device, offset, block_ptrs, level) ==
    IF level = 0
    THEN IF offset < Len(block_ptrs)
         THEN [res |-> IF block_ptrs[offset + 1] = MASTER_BLOCK_NUMBER
                       THEN Ok(None) ELSE Ok(Some(block_ptrs[offset + 1])),
               entries |-> entries]
         ELSE [res |-> Err("Overflow"), entries |-> entries]
    ELSE LET bnpl        == block_numbers_per_level(device, level)
             next_offset == offset % bnpl
             next_block  == offset \div bnpl
         IN  IF ~(next_block < Len(block_ptrs)) THEN [res |-> Panic, entries |-> entries]
             ELSE IF block_ptrs[next_block + 1] = MASTER_BLOCK_NUMBER
                  THEN [res |-> Ok(None), entries |-> entries]
                  ELSE LET r == read_pointers(entries, d, device, block_ptrs[next_block + 1])
                       IN  IF r.tag = "ok"
                           THEN LookupRec(r.entries, d, device, next_offset, r.val, level - 1)
                           ELSE [res |-> IF r.tag = "panic" THEN Panic ELSE Err(r.err),
                                 entries |-> entries]

\* FileSystem::lookup_block_num_from_offset
lookup_block_num_from_offset(fs, d, inode_num, offset) ==
    IF ~(inode_num < Len(fs.inode_map)) THEN [res |-> Panic, fs |-> fs]
    ELSE LET inode == fs.inode_map[inode_num + 1]
             r     == LookupRec(fs.entries, d, fs.device, offset, inode.block_ptrs, inode.level)
         IN  [res |-> r.res, fs |-> [fs EXCEPT !.entries = r.entries]]

\* rec of alloc_block_num_from_offset; block_ptrs in the result is the
\* slice the call was given, as the call leaves it.
RECURSIVE AllocRec(_, _, _, _, _, _, _)
AllocRec(block_map, entries, d, device, offset, block_ptrs, level) ==
    LET Same(res) == [res |-> res, block_map |-> block_map, entries |-> entries,
                      block_ptrs |-> block_ptrs]
    IN  IF level = 0
        THEN IF offset < Len(block_ptrs)
             THEN IF block_ptrs[offset + 1] = MASTER_BLOCK_NUMBER
                  THEN LET a == BlockMapAlloc(block_map)
                       IN  IF a.tag = "ok"
                           THEN [res        |-> Ok(Some(a.val)),
                                 block_map  |-> a.block_map,
                                 entries    |-> entries,
                                 block_ptrs |-> [block_ptrs EXCEPT ![offset + 1] = a.val]]
                           ELSE Same(Err(a.err))
                  ELSE Same(Ok(Some(block_ptrs[offset + 1])))
             ELSE Same(Err("Overflow"))
        ELSE LET bnpl        == block_numbers_per_level(device, level)
                 next_offset == offset % bnpl
                 next_block  == offset \div bnpl
             IN  IF ~(next_block < Len(block_ptrs)) THEN Same(Panic)
                 ELSE IF block_ptrs[next_block + 1] = MASTER_BLOCK_NUMBER THEN Same(Ok(None))
                 ELSE LET r == read_pointers(entries, d, device, block_ptrs[next_block + 1])
                      IN  IF r.tag = "ok"
                          THEN LET sub == AllocRec(block_map, r.entries, d, device,
                                                   next_offset, r.val, level - 1)
                               IN  [res        |-> sub.res,
                                    block_map  |-> sub.block_map,
                                    entries    |-> sub.entries,
                                    block_ptrs |-> block_ptrs]
                          ELSE Same(IF r.tag = "panic" THEN Panic ELSE Err(r.err))

\* A growth that adds two to the level.
GrowTwoLevels(fs, inode_num) ==
    LET inode == fs.inode_map[inode_num + 1]
        a     == BlockMapAlloc(fs.block_map)
        n     == block_numbers_per_block(fs.device)
        new_block == [k \in 1..n |-> IF k <= BLOCK_PTRS THEN inode.block_ptrs[k]
                                      ELSE MASTER_BLOCK_NUMBER]
    IN  IF a.tag # "ok" THEN [tag |-> "err", err |-> a.err, fs |-> fs]
        ELSE IF n < BLOCK_PTRS THEN [tag |-> "panic", fs |-> [fs EXCEPT !.block_map = a.block_map]]
        ELSE [tag |-> "ok",
              fs  |-> [fs EXCEPT
                         !.block_map = a.block_map,
                         !.entries = write_pointers(fs.entries, a.val, new_block),
                         !.inode_map[inode_num + 1] =
                             [inode EXCEPT !.block_ptrs = [NoPtrs EXCEPT ![1] = a.val],
                                           !.level = inode.level + 1 + 1]]]

\* A growth that leaves the new pointer block empty.
GrowNoCopy(fs, inode_num) ==
    LET inode == fs.inode_map[inode_num + 1]
        a     == BlockMapAlloc(fs.block_map)
        n     == block_numbers_per_block(fs.device)
    IN  IF a.tag # "ok" THEN [tag |-> "err", err |-> a.err, fs |-> fs]
        ELSE IF n < BLOCK_PTRS THEN [tag |-> "panic", fs |-> [fs EXCEPT !.block_map = a.block_map]]
        ELSE [tag |-> "ok",
              fs  |-> [fs EXCEPT
                         !.block_map = a.block_map,
                         !.entries = write_pointers(fs.entries, a.val,
                                                    [k \in 1..n |-> MASTER_BLOCK_NUMBER]),
                         !.inode_map[inode_num + 1] =
                             [inode EXCEPT !.block_ptrs = [NoPtrs EXCEPT ![1] = a.val],
                                           !.level = inode.level + 1]]]

\* The growth of the tree by one level (fs.rs 445-458); tag is "ok", or
\* "err" when the block map is full, or "panic".
Grow(fs, inode_num) ==
    LET inode == fs.inode_map[inode_num + 1]
        a     == BlockMapAlloc(fs.block_map)
        n     == block_numbers_per_block(fs.device)
        new_block == [k \in 1..n |-> IF k <= BLOCK_PTRS THEN inode.block_ptrs[k]
                                      ELSE MASTER_BLOCK_NUMBER]
    IN  IF a.tag # "ok" THEN [tag |-> "err", err |-> a.err, fs |-> fs]
        ELSE IF n < BLOCK_PTRS THEN [tag |-> "panic", fs |-> [fs EXCEPT !.block_map = a.block_map]]
        ELSE [tag |-> "ok",
              fs  |-> [fs EXCEPT
                         !.block_map = a.block_map,
                         !.entries = write_pointers(fs.entries, a.val, new_block),
                         !.inode_map[inode_num + 1] =
                             [inode EXCEPT !.block_ptrs = [NoPtrs EXCEPT ![1] = a.val],
                                           !.level = inode.level + 1]]]

\* FileSystem::alloc_block_num_from_offset
alloc_block_num_from_offset(fs, d, inode_num, offset) ==
    IF ~(inode_num < Len(fs.inode_map)) THEN [res |-> Panic, fs |-> fs]
    ELSE LET inode0 == fs.inode_map[inode_num + 1]
             bnpl   == block_numbers_per_level(fs.device, inode0.level)
             g      == IF offset >= Len(inode0.block_ptrs) * bnpl
                       THEN Grow(fs, inode_num) ELSE [tag |-> "ok", fs |-> fs]
             inode  == g.fs.inode_map[inode_num + 1]
             r      == AllocRec(g.fs.block_map, g.fs.entries, d, g.fs.device, offset,
                                inode.block_ptrs, inode.level)
             after  == [g.fs EXCEPT !.block_map = r.block_map,
                                    !.entries = r.entries,
                                    !.inode_map[inode_num + 1].block_ptrs = r.block_ptrs]
         IN  IF g.tag = "err" THEN [res |-> Err(g.err), fs |-> g.fs]
             ELSE IF g.tag = "panic" THEN [res |-> Panic, fs |-> g.fs]
             ELSE IF r.res.tag # "ok" THEN [res |-> r.res, fs |-> after]
             ELSE [res |-> r.res,
                   fs  |-> [after EXCEPT !.inode_map[inode_num + 1].length = @ + 1]]

----------------------------------------------------------------------------
(* Display of the block map (fs.rs 98-133): the characters printed.        *)

display_chunks(bits) ==
    Concat([k \in 1..Len(bits) |->
               <<IF bits[k] THEN "1" ELSE "0">>
                   \o (IF k % 64 = 0 THEN <<"\n">> ELSE IF k % 8 = 0 THEN <<"|">> ELSE <<>>)])
        \o (IF Len(bits) % 64 # 0 THEN <<"\n">> ELSE <<>>)

----------------------------------------------------------------------------
(* The shell session (args/mod.rs, lib.rs).  History:                      *)
(*   last_end[f]  "none", "format" (newfs closed it), "mounted", "close"   *)
(*                (a successful unmount), "unclosed" (the session on f     *)
(*                ended without a successful close)                        *)
(*   closed[f]    whether a close of f (by unmount or by newfs) succeeded  *)
(*                and no mount of f succeeded since                        *)
(*   formatted[f] the FileSystem built by the last successful newfs of f,  *)
(*                until an unmount flushes another one over it             *)
(*   alloc_log    the block map at mount, whether the mount followed a     *)
(*                newfs, and the results of the alloc_block commands       *)
(*                since, while no other command changed the map            *)
(* The report of a mount carries prior, last_end[f] as the mount found it. *)
(* An action names the value of a call with \E x \in {call}.               *)

IdleTest == [pc |-> "idle"]
InvalidLog == [valid |-> FALSE, fresh |-> FALSE, start |-> <<>>, results |-> <<>>]

MountedOn(file) == IsSome(current_fs) /\ Get(current_fs).device.file = file

\* The mounted file system, if any, is dropped without close.
Dropped(le) ==
    IF IsSome(current_fs) THEN [le EXCEPT ![Get(current_fs).device.file] = "unclosed"] ELSE le

\* A panic ends the process: nothing is flushed, and the next shell
\* process starts with an empty slot (Env::new).
Crash(d, cmd) ==
    /\ disk' = d
    /\ current_fs' = None
    /\ out' = [cmd |-> cmd, status |-> "panic"]
    /\ last_end' = Dropped(last_end)
    /\ alloc_log' = InvalidLog
    /\ UNCHANGED <<closed, formatted, test>>

\* Env::NO_MOUNT_MSG from with_fs or take_fs
NoMount(cmd) ==
    /\ out' = [cmd |-> cmd, status |-> "no_mount"]
    /\ UNCHANGED <<disk, current_fs, last_end, closed, formatted, alloc_log, test>>

Init ==
    /\ disk = [f \in Files |-> None]
    /\ current_fs = None
    /\ out = [cmd |-> "start", status |-> "ok"]
    /\ last_end = [f \in Files |-> "none"]
    /\ closed = [f \in Files |-> FALSE]
    /\ formatted = [f \in Files |-> None]
    /\ alloc_log = InvalidLog
    /\ test = IdleTest

\* exit, end of input or CTRL-C (lib.rs 52, 64-68), or the death of the
\* process between two commands: Env is dropped and nothing is closed.  The
\* next shell process starts with an empty slot (Env::new).
Exit ==
    /\ current_fs' = None
    /\ out' = [cmd |-> "exit", status |-> "ok"]
    /\ last_end' = Dropped(last_end)
    /\ alloc_log' = InvalidLog
    /\ UNCHANGED <<disk, closed, formatted, test>>

\* newfs <stem> <block_count> <block_size>
NewFs(stem, block_count, block_size, now) ==
    \E c \in {BlockDeviceCreate(disk, stem, block_count, Some(block_size))} :
        IF c.tag # "ok" \/ c.device.block_size < MIN_BLOCK_SIZE
        THEN /\ disk' = c.disk
             /\ out' = [cmd |-> "newfs", status |-> "error", block_size |-> block_size]
             /\ UNCHANGED <<current_fs, last_end, closed, formatted, alloc_log, test>>
        ELSE \E n \in {FileSystemNew(c.device, SystemTime(now))} :
            IF n.tag = "panic" THEN Crash(c.disk, "newfs")
            ELSE \E cl \in {FileSystemClose(n.file_system, c.disk)} :
                IF cl.tag = "panic" THEN Crash(cl.disk, "newfs")
                ELSE LET f == c.device.file
                     IN  /\ disk' = cl.disk
                         /\ out' = [cmd |-> "newfs", status |-> cl.tag, file |-> f,
                                    flushed |-> cl.flushed, block_size |-> block_size]
                         /\ formatted' = [formatted EXCEPT ![f] =
                                IF cl.tag = "ok" THEN Some(n.file_system) ELSE None]
                         /\ last_end' = IF MountedOn(f) THEN last_end
                                        ELSE [last_end EXCEPT ![f] =
                                                 IF cl.tag = "ok" THEN "format" ELSE "none"]
                         /\ closed' = [closed EXCEPT ![f] = (cl.tag = "ok") \/ @]
                         /\ UNCHANGED <<current_fs, alloc_log, test>>

\* mount <stem>.<block_size>.dev
Mount(file) ==
    IF ~IsSome(disk[file])
    THEN /\ out' = [cmd |-> "mount", status |-> "error", file |-> file, err |-> "exists"]
         /\ UNCHANGED <<disk, current_fs, last_end, closed, formatted, alloc_log, test>>
    ELSE \E r \in {FileSystemRead(disk, BlockDeviceOpen(disk, file).device)} :
        IF r.tag = "panic" THEN Crash(r.disk, "mount")
        ELSE IF r.tag = "err"
        THEN /\ disk' = r.disk
             /\ out' = [cmd |-> "mount", status |-> "error", file |-> file, err |-> r.err]
             /\ UNCHANGED <<current_fs, last_end, closed, formatted, alloc_log, test>>
        ELSE /\ disk' = r.disk
             /\ current_fs' = Some(r.file_system)
             /\ out' = [cmd |-> "mount", status |-> "ok", file |-> file,
                        clean_mount |-> r.clean_mount, warning |-> ~r.clean_mount,
                        prior |-> last_end[file], closed_before |-> closed[file]]
             /\ last_end' = [Dropped(last_end) EXCEPT ![file] = "mounted"]
             /\ closed' = [closed EXCEPT ![file] = FALSE]
             /\ alloc_log' = [valid |-> TRUE, fresh |-> last_end[file] = "format",
                              start |-> r.file_system.block_map, results |-> <<>>]
             /\ UNCHANGED <<formatted, test>>

\* blockmap
BlockMapCmd ==
    IF ~IsSome(current_fs) THEN NoMount("blockmap")
    ELSE /\ out' = [cmd |-> "blockmap", status |-> "ok",
                    text |-> display_chunks(Get(current_fs).block_map)]
         /\ UNCHANGED <<disk, current_fs, last_end, closed, formatted, alloc_log, test>>

\* alloc_block
AllocBlock ==
    IF ~IsSome(current_fs) THEN NoMount("alloc_block")
    ELSE \E fs \in {Get(current_fs)} : \E a \in {BlockMapAlloc(fs.block_map)} :
         LET result == IF a.tag = "ok" THEN Some(a.val) ELSE None
         IN  /\ current_fs' = Some([fs EXCEPT !.block_map = a.block_map])
             /\ out' = [cmd |-> "alloc_block", status |-> "ok", result |-> result]
             /\ alloc_log' = IF alloc_log.valid /\ Len(alloc_log.results) < MaxAllocLog
                             THEN [alloc_log EXCEPT !.results = Append(@, result)]
                             ELSE InvalidLog
             /\ UNCHANGED <<disk, last_end, closed, formatted, test>>

\* free_block <n>
FreeBlock(n) ==
    IF ~IsSome(current_fs) THEN NoMount("free_block")
    ELSE LET fs == Get(current_fs)
         IN  IF ~(n < Len(fs.block_map)) THEN Crash(disk, "free_block")
             ELSE /\ current_fs' = Some([fs EXCEPT !.block_map = BlockMapFree(fs.block_map, n)])
                  /\ out' = [cmd |-> "free_block", status |-> "ok", block |-> n]
                  /\ alloc_log' = InvalidLog
                  /\ UNCHANGED <<disk, last_end, closed, formatted, test>>

\* An unmount that keeps the file system mounted when close fails.
UnmountKeepsOnError ==
    IF ~IsSome(current_fs) THEN NoMount("unmount")
    ELSE \E fs \in {Get(current_fs)} : \E cl \in {FileSystemClose(fs, disk)} :
         LET f == fs.device.file
         IN  IF cl.tag = "panic" THEN Crash(cl.disk, "unmount")
             ELSE /\ disk' = cl.disk
                  /\ current_fs' = IF cl.tag = "ok" THEN None ELSE current_fs
                  /\ out' = [cmd |-> "unmount", status |-> cl.tag, file |-> f,
                             flushed |-> cl.flushed]
                  /\ last_end' = [last_end EXCEPT ![f] =
                                     IF cl.tag = "ok" THEN "close" ELSE "unclosed"]
                  /\ closed' = [closed EXCEPT ![f] = (cl.tag = "ok") \/ @]
                  /\ formatted' = [formatted EXCEPT ![f] = None]
                  /\ alloc_log' = InvalidLog
                  /\ UNCHANGED test

\* unmount: take_fs empties the slot, then close
Unmount ==
    IF ~IsSome(current_fs) THEN NoMount("unmount")
    ELSE \E fs \in {Get(current_fs)} : \E cl \in {FileSystemClose(fs, disk)} :
         LET f == fs.device.file
         IN  IF cl.tag = "panic" THEN Crash(cl.disk, "unmount")
             ELSE /\ disk' = cl.disk
                  /\ current_fs' = None
                  /\ out' = [cmd |-> "unmount", status |-> cl.tag, file |-> f,
                             flushed |-> cl.flushed]
                  /\ last_end' = [last_end EXCEPT ![f] =
                                     IF cl.tag = "ok" THEN "close" ELSE "unclosed"]
                  /\ closed' = [closed EXCEPT ![f] = (cl.tag = "ok") \/ @]
                  /\ formatted' = [formatted EXCEPT ![f] = None]
                  /\ alloc_log' = InvalidLog
                  /\ UNCHANGED test

Next ==
    \/ Exit
    \/ \E stem \in Stems, c \in Counts, s \in Sizes, now \in Times : NewFs(stem, c, s, now)
    \/ \E f \in Files : Mount(f)
    \/ BlockMapCmd
    \/ AllocBlock
    \/ \E n \in FreeTargets : FreeBlock(n)
    \/ Unmount

Spec == Init /\ [][Next]_vars

----------------------------------------------------------------------------
(* The shell session on a medium whose writes can fail: between two        *)
(* commands the environment sets how many more writes the file takes       *)
(* (handle.write_all then returns an io::Error, device::Error::IO), or     *)
(* repairs it.  newfs is also given the smallest block count that          *)
(* FileSystem::new accepts, for which the flush writes past the device.    *)

FaultPoints == {0} \cup ((1 + INODE_COUNT)..MaxBudget)
Faults == {None} \cup {Some(k) : k \in FaultPoints}
IoCounts == Counts \cup {1 + INODE_COUNT}
IoTimes == {1}

SetFault(file, fault) ==
    /\ IsSome(disk[file])
    /\ Get(disk[file]).writes_left # fault
    /\ disk' = [disk EXCEPT ![file] = Some([Get(@) EXCEPT !.writes_left = fault])]
    /\ out' = [cmd |-> "fault", status |-> "ok"]
    /\ UNCHANGED <<current_fs, last_end, closed, formatted, alloc_log, test>>

NextIo ==
    \/ Exit
    \/ \E stem \in Stems, c \in IoCounts, s \in Sizes, now \in IoTimes : NewFs(stem, c, s, now)
    \/ \E f \in Files : Mount(f)
    \/ AllocBlock
    \/ Unmount
    \/ \E f \in Files, fault \in Faults : SetFault(f, fault)

SpecIo == Init /\ [][NextIo]_vars

\* The commands of SpecIo together with blockmap and free_block.
SlotFrees == {1 + INODE_COUNT}

NextSlot ==
    \/ NextIo
    \/ BlockMapCmd
    \/ \E n \in SlotFrees : FreeBlock(n)

SpecSlot == Init /\ [][NextSlot]_vars

----------------------------------------------------------------------------
(* The shell session with requests that newfs refuses or cannot serve: a   *)
(* block size of 0 or below 128, a block count of 0, block counts too      *)
(* small for the metadata.                                                 *)

SmallSize == MIN_BLOCK_SIZE \div 2
NewFsSizes == {0, SmallSize} \cup Sizes
NewFsCounts == {0, INODE_COUNT, 1 + INODE_COUNT} \cup Counts
NewFsFiles == Stems \X (NewFsSizes \ {0})

InitNewFs ==
    /\ disk = [f \in NewFsFiles |-> None]
    /\ current_fs = None
    /\ out = [cmd |-> "start", status |-> "ok"]
    /\ last_end = [f \in NewFsFiles |-> "none"]
    /\ closed = [f \in NewFsFiles |-> FALSE]
    /\ formatted = [f \in NewFsFiles |-> None]
    /\ alloc_log = InvalidLog
    /\ test = IdleTest

NextNewFs ==
    \/ \E stem \in Stems, c \in NewFsCounts, s \in NewFsSizes, now \in IoTimes :
           NewFs(stem, c, s, now)
    \/ \E f \in NewFsFiles : Mount(f)
    \/ AllocBlock
    \/ Unmount

SpecNewFs == InitNewFs /\ [][NextNewFs]_vars

----------------------------------------------------------------------------
(* The shell on devices whose bitmap fills its last block to the end or    *)
(* nearly so: block counts around 8 * block_size, all of them above the    *)
(* number of metadata blocks.                                               *)

LayoutCounts == {8 * MIN_BLOCK_SIZE - 8, 8 * MIN_BLOCK_SIZE - 7,
                 8 * MIN_BLOCK_SIZE - 1, 8 * MIN_BLOCK_SIZE}

NextLayout ==
    \/ \E stem \in Stems, c \in LayoutCounts, s \in Sizes, now \in IoTimes :
           NewFs(stem, c, s, now)
    \/ \E f \in NewFsFiles : Mount(f)
    \/ Unmount

SpecLayout == InitNewFs /\ [][NextLayout]_vars

----------------------------------------------------------------------------
(* The shell session with two devices: newfs, mount and alloc_block, with  *)
(* mounts issued while a file system is mounted.                           *)

TwoStems == Stems \cup {"e"}
TwoSizes == {SmallSize} \cup Sizes
TwoFiles == TwoStems \X TwoSizes

InitTwo ==
    /\ disk = [f \in TwoFiles |-> None]
    /\ current_fs = None
    /\ out = [cmd |-> "start", status |-> "ok"]
    /\ last_end = [f \in TwoFiles |-> "none"]
    /\ closed = [f \in TwoFiles |-> FALSE]
    /\ formatted = [f \in TwoFiles |-> None]
    /\ alloc_log = InvalidLog
    /\ test = IdleTest

NextTwo ==
    \/ \E stem \in TwoStems, c \in Counts, s \in TwoSizes, now \in IoTimes :
           NewFs(stem, c, s, now)
    \/ \E f \in TwoFiles : Mount(f)
    \/ AllocBlock

SpecTwo == InitTwo /\ [][NextTwo]_vars

----------------------------------------------------------------------------
(* A client of FileSystem: the device of the unit tests, the file system   *)
(* that FileSystem::new builds on it, and calls of inode_map.alloc,        *)
(* alloc_block_num_from_offset and lookup_block_num_from_offset.  out      *)
(* reports the last call; in_reach tells whether the offset was within     *)
(* 8 * block_numbers_per_level(level) when alloc was called.               *)

TestFile == DeviceFile("foo", TEST_BLOCK_SIZE)

NoHistory(f) ==
    /\ last_end = [g \in {f} |-> "none"]
    /\ closed = [g \in {f} |-> FALSE]
    /\ formatted = [g \in {f} |-> None]
    /\ alloc_log = InvalidLog

InitFs ==
    \E block_count \in FsCounts :
        \E c \in {BlockDeviceCreate([g \in {TestFile} |-> None], "foo", block_count,
                                    Some(TEST_BLOCK_SIZE))} :
            /\ disk = c.disk
            /\ current_fs = Some(FileSystemNew(c.device, SystemTime(1)).file_system)
            /\ out = [cmd |-> "new", status |-> "ok"]
            /\ NoHistory(TestFile)
            /\ test = IdleTest

\* fs.inode_map.alloc(flags)
FsINodeAlloc(flags, now) ==
    /\ IsSome(current_fs)
    /\ \E fs \in {Get(current_fs)} :
       \E r \in {INodeMapAlloc(fs.inode_map, flags, SystemTime(now))} :
           /\ IsSome(r.val) => Get(r.val) <= MaxInode
           /\ current_fs' = Some([fs EXCEPT !.inode_map = r.inode_map])
           /\ out' = [cmd |-> "inode_alloc", status |-> "ok", result |-> r.val]
    /\ UNCHANGED <<disk, last_end, closed, formatted, alloc_log, test>>

\* The slot after a call: a panic unwinds through the owner of the file system.
AfterCall(r) == IF r.res = Panic THEN None ELSE Some(r.fs)

\* The calls of alloc_block_num_from_offset that succeeded so far.
RECURSIVE TotalLength(_)
TotalLength(inode_map) ==
    IF inode_map = <<>> THEN 0 ELSE Head(inode_map).length + TotalLength(Tail(inode_map))

\* fs.alloc_block_num_from_offset(inode_num, offset)
FsAlloc(inode_num, offset) ==
    /\ IsSome(current_fs)
    /\ \E fs \in {Get(current_fs)} :
       /\ TotalLength(fs.inode_map) < MaxLength
       /\ \E r \in {alloc_block_num_from_offset(fs, disk, inode_num, offset)} :
           /\ current_fs' = AfterCall(r)
           /\ out' = [cmd |-> "alloc", inode_num |-> inode_num, offset |-> offset,
                      in_reach |-> offset < BLOCK_PTRS * block_numbers_per_level(
                                        fs.device, fs.inode_map[inode_num + 1].level),
                      res |-> r.res]
    /\ UNCHANGED <<disk, last_end, closed, formatted, alloc_log, test>>

\* fs.lookup_block_num_from_offset(inode_num, offset)
FsLookup(inode_num, offset) ==
    /\ IsSome(current_fs)
    /\ \E r \in {lookup_block_num_from_offset(Get(current_fs), disk, inode_num, offset)} :
           /\ current_fs' = AfterCall(r)
           /\ out' = [cmd |-> "lookup", inode_num |-> inode_num, offset |-> offset,
                      res |-> r.res]
    /\ UNCHANGED <<disk, last_end, closed, formatted, alloc_log, test>>

NextFs ==
    \/ \E now \in Times : FsINodeAlloc(FILE, now)
    \/ \E i \in InodeNums, o \in TreeOffsets : FsAlloc(i, o)
    \/ \E i \in InodeNums, o \in TreeOffsets : FsLookup(i, o)

SpecFs == InitFs /\ [][NextFs]_vars

\* The same client on devices with one or two blocks past the metadata,
\* where the block map runs out.
SmallCounts == {1 + 1 + INODE_COUNT, 1 + 1 + 1 + INODE_COUNT}

InitSmallFs ==
    \E block_count \in SmallCounts :
        \E c \in {BlockDeviceCreate([g \in {TestFile} |-> None], "foo", block_count,
                                    Some(TEST_BLOCK_SIZE))} :
            /\ disk = c.disk
            /\ current_fs = Some(FileSystemNew(c.device, SystemTime(1)).file_system)
            /\ out = [cmd |-> "new", status |-> "ok"]
            /\ NoHistory(TestFile)
            /\ test = IdleTest

\* fs.inode_map.free(block_number)
FsINodeFree(block_number) ==
    /\ IsSome(current_fs)
    /\ \E fs \in {Get(current_fs)} :
           /\ current_fs' = Some([fs EXCEPT !.inode_map = INodeMapFree(fs.inode_map, block_number)])
           /\ out' = [cmd |-> "inode_free", status |-> "ok", inode_num |-> block_number]
    /\ UNCHANGED <<disk, last_end, closed, formatted, alloc_log, test>>

NextSmallFs ==
    \/ NextFs
    \/ \E i \in InodeNums : FsINodeFree(i)

SpecSmallFs == InitSmallFs /\ [][NextSmallFs]_vars

----------------------------------------------------------------------------
(* A client of the INodeMap of a new file system: calls of                 *)
(* inode_map.alloc(flags) and inode_map.free(i).  out reports the last     *)
(* call.                                                                   *)

INodeFlagsInputs == {FILE, FREE + FILE, FREE}
INodeTimes == {1 + 1}
INodeFrees == {0, INODE_COUNT - 1}

\* fs.inode_map.alloc(flags)
INodesAlloc(flags, now) ==
    /\ IsSome(current_fs)
    /\ \E fs \in {Get(current_fs)} :
       \E r \in {INodeMapAlloc(fs.inode_map, flags, SystemTime(now))} :
           /\ current_fs' = Some([fs EXCEPT !.inode_map = r.inode_map])
           /\ out' = [cmd |-> "inode_alloc", status |-> "ok", flags |-> flags,
                      result |-> r.val]
    /\ UNCHANGED <<disk, last_end, closed, formatted, alloc_log, test>>

\* fs.inode_map.free(block_number)
INodesFree(block_number) ==
    /\ IsSome(current_fs)
    /\ \E fs \in {Get(current_fs)} :
           /\ current_fs' = Some([fs EXCEPT !.inode_map = INodeMapFree(fs.inode_map, block_number)])
           /\ out' = [cmd |-> "inode_free", status |-> "ok", inode_num |-> block_number]
    /\ UNCHANGED <<disk, last_end, closed, formatted, alloc_log, test>>

NextINodes ==
    \/ \E flags \in INodeFlagsInputs, now \in INodeTimes : INodesAlloc(flags, now)
    \/ \E i \in INodeFrees : INodesFree(i)

SpecINodes == InitFs /\ [][NextINodes]_vars

----------------------------------------------------------------------------
(* INodeFlags::parse (fs.rs 149-165) and the character that the display    *)
(* of the inode map prints for an inode (fs.rs 243-260).  A string is the  *)
(* sequence of its characters.  test is [pc, arg]: the string given to     *)
(* parse; out reports the last call.                                       *)

FlagChars == {"0", "f", "s", "d", "D", "b", "x"}
MaxArgLen == 2
FlagArgs == UNION {[1..n -> FlagChars] : n \in 0..MaxArgLen}

\* parse_inode_flags: alt! over one char! each; the input left over stays
\* in the result.  rest is what follows the character taken.
parse_inode_flags(s) ==
    IF s = <<>> THEN [tag |-> "incomplete"]
    ELSE IF Head(s) = "0" THEN [tag |-> "done", rest |-> Tail(s), val |-> FREE]
    ELSE IF Head(s) = "f" THEN [tag |-> "done", rest |-> Tail(s), val |-> FILE]
    ELSE IF Head(s) = "s" THEN [tag |-> "done", rest |-> Tail(s), val |-> LINK]
    ELSE IF Head(s) = "d" THEN [tag |-> "done", rest |-> Tail(s), val |-> PTR]
    ELSE IF Head(s) = "D" THEN [tag |-> "done", rest |-> Tail(s), val |-> DATA]
    ELSE [tag |-> "error"]

\* IResult::to_result: Done(_, o) is Ok(o), whatever input is left.
to_result(r) == IF r.tag = "done" THEN Ok(r.val) ELSE Err("Parse")

\* INodeFlags::parse
INodeFlagsParse(s) == to_result(parse_inode_flags(s))

\* display of Display for INodeMap
display(flags) ==
    IF Contains(flags, FREE) THEN "0"
    ELSE IF Contains(flags, FILE) THEN "f"
    ELSE IF Contains(flags, DIR) THEN "d"
    ELSE IF Contains(flags, LINK) THEN "s"
    ELSE IF Contains(flags, PTR) THEN "b"
    ELSE IF Contains(flags, DATA) THEN "D"
    ELSE "0"

InitFlags ==
    \E arg \in FlagArgs :
        /\ disk = [f \in {TestFile} |-> None]
        /\ current_fs = None
        /\ out = [cmd |-> "none", status |-> "ok"]
        /\ NoHistory(TestFile)
        /\ test = [pc |-> "flags", arg |-> arg]

\* INodeFlags::parse(arg)
FlagsParse ==
    /\ out.cmd = "none"
    /\ out' = [cmd |-> "parse", status |-> "ok", res |-> INodeFlagsParse(test.arg)]
    /\ UNCHANGED <<disk, current_fs, last_end, closed, formatted, alloc_log, test>>

\* The display of an inode that carries the flags that parse returned.
FlagsDisplay ==
    /\ out.cmd = "parse" /\ out.res.tag = "ok"
    /\ out' = [cmd |-> "display", status |-> "ok", flags |-> out.res.val,
               char |-> display(out.res.val)]
    /\ UNCHANGED <<disk, current_fs, last_end, closed, formatted, alloc_log, test>>

NextFlags == FlagsParse \/ FlagsDisplay

SpecFlags == InitFlags /\ [][NextFlags]_vars

----------------------------------------------------------------------------
(* A client of BlockDevice (device.rs 115-195): creates, writes and reads  *)
(* on small devices.  A buffer is [bytes, len]: bytes, then zeros up to    *)
(* len bytes.  test is [pc, device, pos, last]: device is the handle of    *)
(* the last successful create, pos the position of its file handle, and    *)
(* last[b + 1] the buffer of the last successful write to block b through  *)
(* that handle.  out reports the last call; a create reports old_len, the  *)
(* length of the file as it found it (0 when missing).                     *)

DevStem == "mydev"
DevSize == 2
DevCounts == {0, 1, MaxDevCount}
DevSizes == {None, Some(0), Some(DevSize)}
DevFiles == {DeviceFile(DevStem, DevSize), DeviceFile(DevStem, DEFAULT_BLOCK_SIZE)}
DevBlocks == {0, MaxDevCount - 1, MaxDevCount}
DevBufs == {[bytes |-> <<1, 0>>, len |-> DevSize],
            [bytes |-> <<0, 1>>, len |-> DevSize],
            [bytes |-> <<1>>, len |-> DevSize - 1],
            [bytes |-> <<0, 1>>, len |-> DEFAULT_BLOCK_SIZE]}
DevLens == {DevSize, DevSize + 1, DEFAULT_BLOCK_SIZE}

NoWrites == [k \in 1..(MaxDevCount + 1) |-> None]

FileLen(d, file) == IF IsSome(d[file]) THEN Get(d[file]).len ELSE 0

InitDevice ==
    /\ disk = [f \in DevFiles |-> None]
    /\ current_fs = None
    /\ out = [cmd |-> "none", status |-> "ok"]
    /\ last_end = [f \in DevFiles |-> "none"]
    /\ closed = [f \in DevFiles |-> FALSE]
    /\ formatted = [f \in DevFiles |-> None]
    /\ alloc_log = InvalidLog
    /\ test = [pc |-> "device", device |-> None, pos |-> 0, last |-> NoWrites]

\* BlockDevice::create(path, count, optional_size)
DevCreate(count, optional_size) ==
    /\ \E r \in {BlockDeviceCreate(disk, DevStem, count, optional_size)} :
           /\ disk' = r.disk
           /\ IF r.tag = "ok"
              THEN /\ test' = [test EXCEPT !.device = Some(r.device),
                                           !.pos = r.device.block_size * count,
                                           !.last = NoWrites]
                   /\ out' = [cmd |-> "create", status |-> "ok", count |-> count,
                              optional_size |-> optional_size,
                              old_len |-> FileLen(disk, r.device.file)]
              ELSE /\ test' = test
                   /\ out' = [cmd |-> "create", status |-> "error", err |-> r.err,
                              count |-> count, optional_size |-> optional_size]
    /\ UNCHANGED <<current_fs, last_end, closed, formatted, alloc_log>>

\* device.write(block_num, buf)
DevWrite(block_num, buf) ==
    /\ IsSome(test.device)
    /\ \E r \in {DeviceWrite(disk, Get(test.device), block_num, buf.bytes, buf.len)} :
           /\ disk' = r.disk
           /\ IF r.tag = "ok"
              THEN /\ test' = [test EXCEPT !.pos = SeekPos(Get(test.device), block_num) + buf.len,
                                           !.last[block_num + 1] = Some(buf)]
                   /\ out' = [cmd |-> "write", status |-> "ok", block_num |-> block_num,
                              len |-> buf.len]
              ELSE /\ test' = test
                   /\ out' = [cmd |-> "write", status |-> "error", err |-> r.err,
                              block_num |-> block_num, len |-> buf.len]
    /\ UNCHANGED <<current_fs, last_end, closed, formatted, alloc_log>>

\* device.read(block_num, buf) with a buffer of buf_len bytes
DevRead(block_num, buf_len) ==
    /\ IsSome(test.device)
    /\ \E r \in {DeviceRead(disk, Get(test.device), block_num, buf_len)} :
           IF r.tag = "ok"
           THEN /\ test' = [test EXCEPT !.pos = SeekPos(Get(test.device), block_num) + buf_len]
                /\ out' = [cmd |-> "read", status |-> "ok", block_num |-> block_num,
                           len |-> buf_len, buf |-> [bytes |-> r.val, len |-> buf_len]]
           ELSE /\ test' = test
                /\ out' = [cmd |-> "read", status |-> "error", err |-> r.err,
                           block_num |-> block_num, len |-> buf_len]
    /\ UNCHANGED <<disk, current_fs, last_end, closed, formatted, alloc_log>>

NextDevice ==
    \/ \E count \in DevCounts, optional_size \in DevSizes : DevCreate(count, optional_size)
    \/ \E b \in DevBlocks, buf \in DevBufs : DevWrite(b, buf)
    \/ \E b \in DevBlocks, n \in DevLens : DevRead(b, n)

SpecDevice == InitDevice /\ [][NextDevice]_vars

----------------------------------------------------------------------------
(* The names of device files (device.rs 56-107).  A string is the sequence *)
(* of its characters.  test is [pc, stem, block_size]: a DeviceConfig; out *)
(* reports the last call.  The names given to parse are the name that      *)
(* file() produced, with characters cut from its end or added to it.       *)

DigitChars == <<"0", "1", "2", "3", "4", "5", "6", "7", "8", "9">>
IsDigit(c) == \E k \in 1..Len(DigitChars) : DigitChars[k] = c
DigitValue(c) == (CHOOSE k \in 1..Len(DigitChars) : DigitChars[k] = c) - 1
U16_MAX == 65535

\* format!("{}", n) of an unsigned integer
RECURSIVE ToDecimal(_)
ToDecimal(n) ==
    IF n < 10 THEN <<DigitChars[n + 1]>>
    ELSE ToDecimal(n \div 10) \o <<DigitChars[(n % 10) + 1]>>

\* u16::from_str on a string of digits
RECURSIVE FromStr(_)
FromStr(s) ==
    IF s = <<>> THEN Err("Parse")
    ELSE IF Len(s) = 1 THEN Ok(DigitValue(s[1]))
    ELSE LET r == FromStr(SubSeq(s, 1, Len(s) - 1))
         IN  IF r.tag # "ok" THEN r
             ELSE IF r.val * 10 + DigitValue(s[Len(s)]) > U16_MAX THEN Err("Parse")
             ELSE Ok(r.val * 10 + DigitValue(s[Len(s)]))

\* The longest prefix of s whose characters all satisfy P.
TakeWhile(s, P(_)) ==
    LET n == CHOOSE k \in 0..Len(s) :
                 /\ \A j \in 1..k : P(s[j])
                 /\ k < Len(s) => ~P(s[k + 1])
    IN  SubSeq(s, 1, n)

Drop(s, n) == SubSeq(s, n + 1, Len(s))

DevTag == <<".", "d", "e", "v">>

\* DeviceConfig::file
DeviceConfigFile(path, block_size) == path \o <<".">> \o ToDecimal(block_size) \o DevTag

\* file_components: take_till_s!('.'), char!('.'), digit mapped through
\* from_str, tag!(".dev"); rest is the input left over.
file_components(s) ==
    LET NotDot(c) == c # "."
        file   == TakeWhile(s, NotDot)
        s1     == Drop(s, Len(file))
        s2     == Drop(s1, 1)
        digits == TakeWhile(s2, IsDigit)
        s3     == Drop(s2, Len(digits))
        size   == FromStr(digits)
    IN  IF s1 = <<>> THEN [tag |-> "incomplete"]
        ELSE IF digits = <<>> THEN [tag |-> IF s2 = <<>> THEN "incomplete" ELSE "error"]
        ELSE IF size.tag # "ok" THEN [tag |-> "error"]
        ELSE IF Len(s3) < Len(DevTag)
             THEN [tag |-> IF s3 = SubSeq(DevTag, 1, Len(s3)) THEN "incomplete" ELSE "error"]
        ELSE IF SubSeq(s3, 1, Len(DevTag)) # DevTag THEN [tag |-> "error"]
        ELSE [tag |-> "done", rest |-> Drop(s3, Len(DevTag)),
              val |-> [path |-> file, block_size |-> size.val]]

\* DeviceConfig::parse
DeviceConfigParse(s) ==
    LET r == to_result(file_components(s))
    IN  IF r.tag = "ok" THEN Ok([path |-> r.val.path, block_size |-> r.val.block_size,
                                 block_count |-> 0])
        ELSE r

MaxCut == 2
NameStems == {<<>>, <<"m">>, <<"m", "1">>, <<"1">>}
NameSizes == {0, MIN_BLOCK_SIZE, DEFAULT_BLOCK_SIZE, U16_MAX}
NameSuffixes == {<<>>, <<"x">>, <<"0">>, DevTag}
Variants(name) ==
    {SubSeq(name \o sfx, 1, Len(name \o sfx) - cut) : sfx \in NameSuffixes, cut \in 0..MaxCut}
    \cup {SubSeq(name, 1, Len(name) - Len(DevTag)) \o <<"0">> \o DevTag}

InitNames ==
    \E stem \in NameStems, block_size \in NameSizes :
        /\ disk = [f \in {TestFile} |-> None]
        /\ current_fs = None
        /\ out = [cmd |-> "none", status |-> "ok"]
        /\ NoHistory(TestFile)
        /\ test = [pc |-> "names", stem |-> stem, block_size |-> block_size]

\* DeviceConfig::new(stem).block_size(block_size).file()
NamesFile ==
    /\ out' = [cmd |-> "file", status |-> "ok",
               name |-> DeviceConfigFile(test.stem, test.block_size)]
    /\ UNCHANGED <<disk, current_fs, last_end, closed, formatted, alloc_log, test>>

\* DeviceConfig::parse(name)
NamesParse(name) ==
    /\ out' = [cmd |-> "parse", status |-> "ok", name |-> name,
               res |-> DeviceConfigParse(name)]
    /\ UNCHANGED <<disk, current_fs, last_end, closed, formatted, alloc_log, test>>

NextNames ==
    \/ NamesFile
    \/ \E name \in Variants(DeviceConfigFile(test.stem, test.block_size)) : NamesParse(name)

SpecNames == InitNames /\ [][NextNames]_vars

----------------------------------------------------------------------------
(* A session of a FileSystem client that ends with close, and the          *)
(* FileSystem::read of the same device after it.  test is                  *)
(* [pc, calls, at_close, before]: pc is "session", then "closed" or        *)
(* "failed", then "remounted"; calls counts the calls of the session;      *)
(* at_close is the FileSystem as close took it and before the result of    *)
(* every lookup on it.                                                     *)

FlushInodes == {0, INODE_COUNT - 1}
FlushOffsets == {0, BLOCK_PTRS}
FlushFrees == {MASTER_BLOCK_NUMBER}

\* The result of every lookup of the session's inodes and offsets.
Lookups(fs, d) ==
    [p \in FlushInodes \X FlushOffsets |->
        lookup_block_num_from_offset(fs, d, p[1], p[2]).res]

InSession == test.pc = "session" /\ test.calls < MaxCalls /\ IsSome(current_fs)

Called == [test EXCEPT !.calls = @ + 1]

\* The device is formatted (create, FileSystem::new, close) and the
\* session starts with the FileSystem::read of it.
InitFlush ==
    \E block_count \in Counts :
        \E c \in {BlockDeviceCreate([g \in {TestFile} |-> None], "foo", block_count,
                                    Some(TEST_BLOCK_SIZE))} :
        \E cl \in {FileSystemClose(FileSystemNew(c.device, SystemTime(1)).file_system, c.disk)} :
        \E r \in {FileSystemRead(cl.disk, BlockDeviceOpen(cl.disk, TestFile).device)} :
            /\ disk = r.disk
            /\ current_fs = Some(r.file_system)
            /\ out = [cmd |-> "read", status |-> "ok"]
            /\ NoHistory(TestFile)
            /\ test = [pc |-> "session", calls |-> 0, at_close |-> None, before |-> <<>>]

\* fs.block_map.alloc()
FlushBlockAlloc ==
    /\ InSession
    /\ \E fs \in {Get(current_fs)} : \E a \in {BlockMapAlloc(fs.block_map)} :
           /\ current_fs' = Some([fs EXCEPT !.block_map = a.block_map])
           /\ out' = [cmd |-> "block_alloc", status |-> a.tag]
    /\ test' = Called
    /\ UNCHANGED <<disk, last_end, closed, formatted, alloc_log>>

\* fs.block_map.free(block_number)
FlushBlockFree(block_number) ==
    /\ InSession
    /\ \E fs \in {Get(current_fs)} :
           /\ current_fs' = Some([fs EXCEPT !.block_map = BlockMapFree(fs.block_map, block_number)])
           /\ out' = [cmd |-> "block_free", status |-> "ok", block |-> block_number]
    /\ test' = Called
    /\ UNCHANGED <<disk, last_end, closed, formatted, alloc_log>>

\* fs.inode_map.alloc(flags)
FlushINodeAlloc(flags, now) ==
    /\ InSession
    /\ \E fs \in {Get(current_fs)} :
       \E r \in {INodeMapAlloc(fs.inode_map, flags, SystemTime(now))} :
           /\ current_fs' = Some([fs EXCEPT !.inode_map = r.inode_map])
           /\ out' = [cmd |-> "inode_alloc", status |-> "ok", result |-> r.val]
    /\ test' = Called
    /\ UNCHANGED <<disk, last_end, closed, formatted, alloc_log>>

\* fs.inode_map.free(block_number)
FlushINodeFree(block_number) ==
    /\ InSession
    /\ \E fs \in {Get(current_fs)} :
           /\ current_fs' = Some([fs EXCEPT !.inode_map = INodeMapFree(fs.inode_map, block_number)])
           /\ out' = [cmd |-> "inode_free", status |-> "ok", inode_num |-> block_number]
    /\ test' = Called
    /\ UNCHANGED <<disk, last_end, closed, formatted, alloc_log>>

\* fs.alloc_block_num_from_offset(inode_num, offset)
FlushAlloc(inode_num, offset) ==
    /\ InSession
    /\ \E r \in {alloc_block_num_from_offset(Get(current_fs), disk, inode_num, offset)} :
           /\ current_fs' = AfterCall(r)
           /\ out' = [cmd |-> "alloc", inode_num |-> inode_num, offset |-> offset,
                      res |-> r.res]
    /\ test' = Called
    /\ UNCHANGED <<disk, last_end, closed, formatted, alloc_log>>

\* fs.write()
FlushWrite ==
    /\ test.pc = "session"
    /\ IsSome(current_fs)
    /\ \E fs \in {Get(current_fs)} : \E w \in {FileSystemWrite(fs, disk)} :
           /\ disk' = w.disk
           /\ current_fs' = IF w.tag = "panic" THEN None ELSE current_fs
           /\ out' = [cmd |-> "write", status |-> w.tag]
    /\ UNCHANGED <<last_end, closed, formatted, alloc_log, test>>

\* fs.close(): the file system is consumed.
FlushClose ==
    /\ test.pc = "session"
    /\ IsSome(current_fs)
    /\ \E fs \in {Get(current_fs)} : \E cl \in {FileSystemClose(fs, disk)} :
           /\ disk' = cl.disk
           /\ out' = [cmd |-> "close", status |-> cl.tag]
           /\ test' = [test EXCEPT !.pc = IF cl.tag = "ok" THEN "closed" ELSE "failed",
                                   !.at_close = Some(fs),
                                   !.before = Lookups(fs, disk)]
    /\ current_fs' = None
    /\ UNCHANGED <<last_end, closed, formatted, alloc_log>>

\* FileSystem::read(BlockDevice::open(file)) after the close
FlushRead ==
    /\ test.pc = "closed"
    /\ \E r \in {FileSystemRead(disk, BlockDeviceOpen(disk, TestFile).device)} :
           /\ disk' = r.disk
           /\ current_fs' = IF r.tag = "ok" THEN Some(r.file_system) ELSE None
           /\ out' = [cmd |-> "read", status |-> r.tag]
           /\ test' = [test EXCEPT !.pc = IF r.tag = "ok" THEN "remounted" ELSE "failed"]
    /\ UNCHANGED <<last_end, closed, formatted, alloc_log>>

\* fs.lookup_block_num_from_offset(inode_num, offset) on the file system read back
FlushLookup(inode_num, offset) ==
    /\ test.pc = "remounted"
    /\ IsSome(current_fs)
    /\ \E r \in {lookup_block_num_from_offset(Get(current_fs), disk, inode_num, offset)} :
           /\ current_fs' = AfterCall(r)
           /\ out' = [cmd |-> "lookup", inode_num |-> inode_num, offset |-> offset,
                      res |-> r.res]
    /\ UNCHANGED <<disk, last_end, closed, formatted, alloc_log, test>>

NextFlush ==
    \/ FlushBlockAlloc
    \/ \E b \in FlushFrees : FlushBlockFree(b)
    \/ \E now \in Times : FlushINodeAlloc(FILE, now)
    \/ \E i \in FlushInodes : FlushINodeFree(i)
    \/ \E i \in FlushInodes, o \in FlushOffsets : FlushAlloc(i, o)
    \/ FlushWrite
    \/ FlushClose
    \/ FlushRead
    \/ \E i \in FlushInodes, o \in FlushOffsets : FlushLookup(i, o)

SpecFlush == InitFlush /\ [][NextFlush]_vars

----------------------------------------------------------------------------
(* A client of the Cache of a file system whose device was formatted:      *)
(* calls of read, read_pointers and write_pointers.  test is [first]: for  *)
(* every block number the kind of the entry that its first access made,    *)
(* or "none".  The blocks are the bitmap block, data blocks, and the       *)
(* first block number past the device.                                     *)

CacheBlocks == {1} \cup ((1 + 1 + INODE_COUNT)..MaxCacheBlock) \cup Counts
PointerVecs ==
    {[k \in 1..(TEST_BLOCK_SIZE \div PTR_BYTES) |-> IF k = 1 THEN v ELSE MASTER_BLOCK_NUMBER] :
        v \in 0..MaxPtr}

InitCache ==
    \E block_count \in Counts :
        \E c \in {BlockDeviceCreate([g \in {TestFile} |-> None], "foo", block_count,
                                    Some(TEST_BLOCK_SIZE))} :
        \E fs \in {FileSystemNew(c.device, SystemTime(1)).file_system} :
            /\ disk = FileSystemClose(fs, c.disk).disk
            /\ current_fs = Some(fs)
            /\ out = [cmd |-> "new", status |-> "ok"]
            /\ NoHistory(TestFile)
            /\ test = [first |-> [b \in CacheBlocks |-> "none"]]

\* The history after a call on block_num that left the entries as after.
Accessed(block_num, after) ==
    [test EXCEPT !.first[block_num] =
        IF @ = "none" /\ block_num \in DOMAIN after THEN after[block_num].kind ELSE @]

\* cache.read(block_num)
CacheRead(block_num) ==
    /\ IsSome(current_fs)
    /\ \E fs \in {Get(current_fs)} : \E r \in {read(fs.entries, disk, fs.device, block_num)} :
           /\ current_fs' = Some([fs EXCEPT !.entries = r.entries])
           /\ out' = [cmd |-> "cache_read", block |-> block_num,
                      res |-> IF r.tag = "ok" THEN Ok(r.val) ELSE Err(r.err)]
           /\ test' = Accessed(block_num, r.entries)
    /\ UNCHANGED <<disk, last_end, closed, formatted, alloc_log>>

\* cache.read_pointers(block_num)
CacheReadPointers(block_num) ==
    /\ IsSome(current_fs)
    /\ \E fs \in {Get(current_fs)} :
       \E r \in {read_pointers(fs.entries, disk, fs.device, block_num)} :
           /\ current_fs' = IF r.tag = "panic" THEN None
                            ELSE Some([fs EXCEPT !.entries = r.entries])
           /\ out' = [cmd |-> "cache_read_pointers", block |-> block_num,
                      res |-> IF r.tag = "ok" THEN Ok(r.val)
                              ELSE IF r.tag = "panic" THEN Panic ELSE Err(r.err)]
           /\ test' = Accessed(block_num, r.entries)
    /\ UNCHANGED <<disk, last_end, closed, formatted, alloc_log>>

\* cache.write_pointers(block_num, pointers)
CacheWritePointers(block_num, pointers) ==
    /\ IsSome(current_fs)
    /\ \E fs \in {Get(current_fs)} :
       \E entries \in {write_pointers(fs.entries, block_num, pointers)} :
           /\ current_fs' = Some([fs EXCEPT !.entries = entries])
           /\ out' = [cmd |-> "cache_write_pointers", block |-> block_num]
           /\ test' = Accessed(block_num, entries)
    /\ UNCHANGED <<disk, last_end, closed, formatted, alloc_log>>

NextCache ==
    \/ \E b \in CacheBlocks : CacheRead(b)
    \/ \E b \in CacheBlocks : CacheReadPointers(b)
    \/ \E b \in CacheBlocks, pointers \in PointerVecs : CacheWritePointers(b, pointers)

SpecCache == InitCache /\ [][NextCache]_vars

----------------------------------------------------------------------------
(* tests::inode_alloc_read_many (fs.rs 489-500) for a sequence of n        *)
(* offsets: test is [pc, n, i, inode_num, alloced, stored].                *)

InitMany ==
    \E n \in 1..MaxN :
        \E c \in {BlockDeviceCreate([g \in {TestFile} |-> None], "foo", TEST_BLOCK_COUNT,
                                    Some(TEST_BLOCK_SIZE))} :
            /\ disk = c.disk
            /\ current_fs = Some(FileSystemNew(c.device, SystemTime(1)).file_system)
            /\ out = [cmd |-> "new", status |-> "ok"]
            /\ NoHistory(TestFile)
            /\ test = [pc |-> "inode_alloc", n |-> n, i |-> 0, inode_num |-> 0,
                       alloced |-> <<>>, stored |-> <<>>]

\* let inode_num = fs.inode_map.alloc(INodeFlags::FILE).unwrap();
TestINodeAlloc ==
    /\ test.pc = "inode_alloc"
    /\ \E fs \in {Get(current_fs)} :
       \E r \in {INodeMapAlloc(fs.inode_map, FILE, SystemTime(1))} :
           /\ current_fs' = Some([fs EXCEPT !.inode_map = r.inode_map])
           /\ test' = IF IsSome(r.val)
                      THEN [test EXCEPT !.pc = "alloc", !.inode_num = Get(r.val)]
                      ELSE [test EXCEPT !.pc = "panicked"]
    /\ UNCHANGED <<disk, out, last_end, closed, formatted, alloc_log>>

\* seq.map(|i| fs.alloc_block_num_from_offset(inode_num, i).unwrap())
TestAlloc ==
    /\ test.pc = "alloc"
    /\ \E r \in {alloc_block_num_from_offset(Get(current_fs), disk, test.inode_num, test.i)} :
           /\ current_fs' = Some(r.fs)
           /\ test' = IF r.res.tag # "ok" THEN [test EXCEPT !.pc = "panicked"]
                      ELSE [test EXCEPT !.alloced = Append(@, r.res.val),
                                        !.i = IF test.i + 1 = test.n THEN 0 ELSE test.i + 1,
                                        !.pc = IF test.i + 1 = test.n THEN "lookup" ELSE "alloc"]
    /\ UNCHANGED <<disk, out, last_end, closed, formatted, alloc_log>>

\* seq.map(|i| fs.lookup_block_num_from_offset(inode_num, i).unwrap())
TestLookup ==
    /\ test.pc = "lookup"
    /\ \E r \in {lookup_block_num_from_offset(Get(current_fs), disk, test.inode_num, test.i)} :
           /\ current_fs' = Some(r.fs)
           /\ test' = IF r.res.tag # "ok" THEN [test EXCEPT !.pc = "panicked"]
                      ELSE [test EXCEPT !.stored = Append(@, r.res.val),
                                        !.i = IF test.i + 1 = test.n THEN 0 ELSE test.i + 1,
                                        !.pc = IF test.i + 1 = test.n THEN "assert" ELSE "lookup"]
    /\ UNCHANGED <<disk, out, last_end, closed, formatted, alloc_log>>

\* assert_eq!(alloced_block_nums, stored_block_nums)
TestAssert ==
    /\ test.pc = "assert"
    /\ test' = [test EXCEPT !.pc = IF test.alloced = test.stored THEN "passed" ELSE "panicked"]
    /\ UNCHANGED <<disk, current_fs, out, last_end, closed, formatted, alloc_log>>

NextMany == TestINodeAlloc \/ TestAlloc \/ TestLookup \/ TestAssert

SpecMany == InitMany /\ [][NextMany]_vars

----------------------------------------------------------------------------
(* Properties.                                                             *)

\* The file system in the slot, and the first block past the metadata:
\* inode_map_start + inode_count.
Fs == Get(current_fs)
MetadataEnd(mb) == mb.inode_map + mb.inode_count
MountReport == out.cmd = "mount" /\ out.status = "ok"
ClearBits(block_map) == {k \in 1..Len(block_map) : ~block_map[k]}

\* C1: when alloc_block_num_from_offset(i, o), called with o inside the
\* reach of inode i, returned Some(b), a lookup_block_num_from_offset(i, o)
\* made right after it returns Some(b).
C1_AllocThenLookup ==
    (/\ out.cmd = "alloc" /\ out.in_reach
     /\ out.res.tag = "ok" /\ IsSome(out.res.val) /\ IsSome(current_fs))
        => lookup_block_num_from_offset(Fs, disk, out.inode_num, out.offset).res = out.res

\* C2: after the allocation of offsets 0 .. n-1 in increasing order on a
\* freshly allocated FILE inode, the lookups of the same offsets return
\* the values the allocations returned.
C2_ManyStable == test.pc = "assert" => test.stored = test.alloced

\* C3: a mount of a device whose last mounted session ended without close
\* (exit, end of input or a panic while it was mounted) reports
\* clean_mount = FALSE.
C3_UncleanAfterNoClose ==
    (MountReport /\ out.prior = "unclosed") => ~out.clean_mount

\* C4: a mount of a device whose last session ended with a successful
\* unmount reports clean_mount = TRUE and gives no warning.
C4_CleanAfterUnmount ==
    (MountReport /\ out.prior = "close") => (out.clean_mount /\ ~out.warning)

C4_Witness ==
    /\ MountReport /\ out.prior = "close" /\ out.clean_mount
    /\ Len(Fs.block_map) > 12 /\ Fs.block_map[13]

\* C5, as stated: the file system read from a device that newfs formatted
\* and closed has the MasterBlock, BlockMap and INodeMap that new built, and
\* clean_mount is TRUE.
C5_RoundTripIdentical ==
    (MountReport /\ out.prior = "format") =>
        /\ out.clean_mount
        /\ Fs.master_block = Get(formatted[out.file]).master_block
        /\ Fs.block_map = Get(formatted[out.file]).block_map
        /\ Fs.inode_map = Get(formatted[out.file]).inode_map

\* C5, amended: the same, except that the MasterBlock read has the SYNCED
\* flag cleared, which the one that new built has set.
C5_RoundTripButSynced ==
    (MountReport /\ out.prior = "format") =>
        /\ out.clean_mount
        /\ Contains(Get(formatted[out.file]).master_block.flags, SYNCED)
        /\ ~Contains(Fs.master_block.flags, SYNCED)
        /\ [Fs.master_block EXCEPT !.flags = SetFlag(@, SYNCED, TRUE)]
               = Get(formatted[out.file]).master_block
        /\ Fs.block_map = Get(formatted[out.file]).block_map
        /\ Fs.inode_map = Get(formatted[out.file]).inode_map

C5_Witness ==
    /\ MountReport /\ out.prior = "format" /\ out.clean_mount
    /\ IsSome(formatted[out.file])
    /\ \E k \in 1..Len(Fs.block_map) : Fs.block_map[k]
    /\ Fs.inode_map[1].cdate.secs > 0

\* C6: right after FileSystem::new every block below inode_map_start +
\* inode_count is marked used, and every inode has flags FREE.
C6_NewMarksMetadata ==
    out.cmd = "new" =>
        /\ \A b \in 0..(MetadataEnd(Fs.master_block) - 1) :
               b < Len(Fs.block_map) /\ Fs.block_map[b + 1]
        /\ \A k \in 1..Len(Fs.inode_map) : Fs.inode_map[k].flags = FREE

\* C7: on a device of 16 blocks of 128 bytes, after newfs and mount exactly
\* the first 12 bits are set, and the alloc_block commands return 12, 13,
\* 14, 15 and then report that no room is left.
C7_SixteenBlocks ==
    (/\ alloc_log.valid /\ alloc_log.fresh /\ IsSome(current_fs)
     /\ Fs.device.block_count = 16 /\ Fs.device.block_size = 128) =>
        /\ alloc_log.start = [k \in 1..16 |-> k <= 12]
        /\ \A i \in 1..Len(alloc_log.results) :
               alloc_log.results[i] = IF i <= 4 THEN Some(11 + i) ELSE None

\* C8: while a file system is mounted every bit below inode_map_start +
\* inode_count is set, and alloc_block returns no block below it.
C8_MetadataStaysUsed ==
    IsSome(current_fs) =>
        /\ \A b \in 0..(MetadataEnd(Fs.master_block) - 1) :
               b < Len(Fs.block_map) => Fs.block_map[b + 1]
        /\ (out.cmd = "alloc_block" /\ IsSome(out.result))
               => Get(out.result) >= MetadataEnd(Fs.master_block)

\* A step of alloc_block on a map with a clear bit.
C9_AllocStep ==
    (IsSome(current_fs) /\ out'.cmd = "alloc_block" /\ out'.status = "ok"
     /\ ClearBits(Fs.block_map) # {}) =>
        LET old == Fs.block_map
            new == Get(current_fs').block_map
        IN  /\ IsSome(out'.result)
            /\ Get(out'.result) + 1 \in ClearBits(old)
            /\ \A k \in ClearBits(old) : Get(out'.result) + 1 <= k
            /\ Len(new) = Len(old)
            /\ \A k \in 1..Len(old) : new[k] = (old[k] \/ k = Get(out'.result) + 1)

\* A step of free_block.
C9_FreeStep ==
    (IsSome(current_fs) /\ out'.cmd = "free_block" /\ out'.status = "ok") =>
        LET old == Fs.block_map
            new == Get(current_fs').block_map
        IN  /\ Len(new) = Len(old)
            /\ \A k \in 1..Len(old) : new[k] = (old[k] /\ k # out'.block + 1)
            /\ BlockMapFree(new, out'.block) = new

\* C9: an alloc_block on a map with a clear bit returns the lowest clear
\* bit, sets that bit and changes no other; a free_block of b clears bit b
\* and changes no other, and a second free of b changes nothing.
C9_AllocFree == [][C9_AllocStep /\ C9_FreeStep]_vars

C9_Witness ==
    /\ IsSome(current_fs)
    /\ out.cmd = "alloc_block" /\ out.result = Some(0)
    /\ Cardinality(ClearBits(Fs.block_map)) >= 2

\* C10: in a session of alloc_block commands alone on a map with k clear
\* bits, the first k commands return k distinct blocks, every later one
\* reports that no room is left, and the map is the map at mount with the
\* returned bits set.
C10_DistinctUntilFull ==
    (alloc_log.valid /\ IsSome(current_fs)) =>
        LET k == Cardinality(ClearBits(alloc_log.start))
            r == alloc_log.results
        IN  /\ \A i \in 1..Len(r) : IsSome(r[i]) <=> i <= k
            /\ \A i, j \in 1..Len(r) : (i < j /\ j <= k) => r[i] # r[j]
            /\ \A i \in 1..Len(r) : i <= k => Get(r[i]) + 1 \in ClearBits(alloc_log.start)
            /\ Fs.block_map = [b \in 1..Len(alloc_log.start) |->
                                  alloc_log.start[b] \/ \E i \in 1..Len(r) : r[i] = Some(b - 1)]

C10_Witness ==
    /\ alloc_log.valid /\ IsSome(current_fs)
    /\ Cardinality(ClearBits(alloc_log.start)) >= 2
    /\ Len(alloc_log.results) > Cardinality(ClearBits(alloc_log.start))


\* The file system read back after the close of a session.
Remounted == test.pc = "remounted" /\ IsSome(current_fs)

\* C11: after a session ended by a successful close, FileSystem::read of
\* the same device loads the BlockMap and the INodeMap that were in memory
\* at the close.
C11_ReadBackEqual ==
    Remounted =>
        /\ Fs.block_map = Get(test.at_close).block_map
        /\ Fs.inode_map = Get(test.at_close).inode_map

\* C12: every lookup on the file system read back after close returns what
\* it returned right before the close.
C12_LookupsSurvive ==
    Remounted => Lookups(Fs, disk) = test.before


\* The master block that a file carries in block 0, and its SYNCED flag.
OnDisk(d, file) == DecodeMasterBlock(Get(d[file]).blocks[MASTER_BLOCK_NUMBER + 1])
SyncedOn(d, file) == IsSome(d[file]) /\ Contains(OnDisk(d, file).flags, SYNCED)

\* A close (by newfs or by unmount) that returned an error.
CloseFailed == out.cmd \in {"newfs", "unmount"} /\ out.status = "err"

\* C13, as stated: after a close whose flush did not complete, the device
\* does not carry SYNCED = TRUE.
C13_NoSyncedAfterFailedFlush ==
    (CloseFailed /\ ~out.flushed) => ~SyncedOn(disk, out.file)

\* C13, amended: a close that returns an error has not written the flag:
\* block 0 carries SYNCED = TRUE after it only if it did before, which
\* takes a close that succeeded since the last mount of the device; and a
\* close that returns Ok has flushed.
C13_CloseStep ==
    (out'.cmd \in {"newfs", "unmount"} /\ out'.status \in {"ok", "err"}) =>
        /\ out'.status = "err" =>
               /\ SyncedOn(disk', out'.file) = SyncedOn(disk, out'.file)
               /\ ~closed[out'.file] => ~SyncedOn(disk', out'.file)
        /\ out'.status = "ok" => (out'.flushed /\ SyncedOn(disk', out'.file))

C13_FailedCloseKeepsFlag == [][C13_CloseStep]_vars

C13_Witness ==
    /\ out.cmd = "unmount" /\ out.status = "err" /\ ~out.flushed
    /\ ~SyncedOn(disk, out.file)

\* C14: a mount that succeeds reports the SYNCED flag that block 0 carried
\* before it, and leaves the flag cleared on the device and in the
\* MasterBlock in memory; a mount of a device that takes no write fails,
\* and gives the session no file system.
C14_MountStep ==
    /\ (out'.cmd = "mount" /\ out'.status = "ok") =>
           /\ out'.clean_mount = SyncedOn(disk, out'.file)
           /\ ~SyncedOn(disk', out'.file)
           /\ ~Contains(Get(current_fs').master_block.flags, SYNCED)
    /\ (out'.cmd = "mount" /\ out'.status \in {"ok", "error"}
            /\ IsSome(disk[out'.file]) /\ ~Writable(Get(disk[out'.file]))) =>
           /\ out'.status = "error"
           /\ current_fs' = current_fs
           /\ SyncedOn(disk', out'.file) = SyncedOn(disk, out'.file)

C14_ReadClearsSynced == [][C14_MountStep]_vars

C14_Witness ==
    /\ out.cmd = "mount" /\ out.status = "error" /\ out.err = "IO"
    /\ closed[out.file] /\ SyncedOn(disk, out.file)

\* C15: a mount reports clean_mount = TRUE only if a close of the device
\* (by unmount or by newfs) succeeded before it, with no mount of the
\* device in between.
C15_CleanOnlyAfterClose ==
    (MountReport /\ out.clean_mount) => out.closed_before

C15_Witness ==
    MountReport /\ out.clean_mount /\ out.closed_before /\ out.prior = "unclosed"

\* C16: after an unmount whose close failed, the file system is still the
\* mounted file system of the session and the device carries SYNCED = FALSE.
C16_StillMountedAfterError ==
    (out.cmd = "unmount" /\ out.status = "err") =>
        /\ IsSome(current_fs)
        /\ ~SyncedOn(disk, out.file)


\* The entries of the cache before and after a step.
Entries == Get(current_fs).entries
EntriesAfter == Get(current_fs').entries

\* What a miss reads through the device.
Through(block_num) == DeviceRead(disk, Fs.device, block_num, Fs.device.block_size)

\* C17: read returns the bytes of a Block entry, fails with CacheInvalid on
\* a Pointers entry, and on a miss reads the block through the device and
\* inserts it as Block; read_pointers returns the pointers of a Pointers
\* entry, fails with CacheInvalid on a Block entry, and on a miss inserts
\* the decoded block as Pointers.  A CacheInvalid and a failed device read
\* leave the entries as they were.
C17_ReadCase ==
    out'.cmd = "cache_read" =>
        LET b == out'.block
        IN  IF b \in DOMAIN Entries
            THEN /\ EntriesAfter = Entries
                 /\ out'.res = IF Entries[b].kind = "Block" THEN Ok(Entries[b].block)
                               ELSE Err("CacheInvalid")
            ELSE IF Through(b).tag = "ok"
                 THEN /\ out'.res = Ok(Through(b).val)
                      /\ EntriesAfter = Insert(Entries, b, [kind |-> "Block",
                                                            block |-> Through(b).val])
                 ELSE /\ out'.res.tag = "err"
                      /\ EntriesAfter = Entries

C17_ReadPointersCase ==
    out'.cmd = "cache_read_pointers" =>
        LET b == out'.block
            decoded == from_u8(Through(b).val, Fs.device.block_size)
        IN  IF b \in DOMAIN Entries
            THEN /\ EntriesAfter = Entries
                 /\ out'.res = IF Entries[b].kind = "Pointers" THEN Ok(Entries[b].pointers)
                               ELSE Err("CacheInvalid")
            ELSE IF Through(b).tag = "ok"
                 THEN /\ out'.res = Ok(decoded)
                      /\ EntriesAfter = Insert(Entries, b, [kind |-> "Pointers",
                                                            pointers |-> decoded])
                 ELSE /\ out'.res.tag = "err"
                      /\ EntriesAfter = Entries

C17_CacheReads == [][C17_ReadCase /\ C17_ReadPointersCase]_vars

C17_Witness ==
    /\ out.cmd = "cache_read" /\ out.res = Err("CacheInvalid")
    /\ \E b \in DOMAIN Fs.entries : Fs.entries[b].kind = "Block"

\* C18, as stated: the kind of the entry of a block is the kind that the
\* first access of the block gave it.
C18_KindOfFirstAccess ==
    \A b \in DOMAIN Fs.entries : Fs.entries[b].kind = test.first[b]

\* C18, amended: read and read_pointers keep every entry there is and its
\* kind, and add at most the entry of the block they were called with;
\* write_pointers leaves a Pointers entry at its block, whatever was there,
\* and keeps the other entries.
C18_KindStep ==
    /\ out'.cmd \in {"cache_read", "cache_read_pointers"} =>
           /\ DOMAIN EntriesAfter \subseteq DOMAIN Entries \cup {out'.block}
           /\ \A b \in DOMAIN Entries :
                  b \in DOMAIN EntriesAfter /\ EntriesAfter[b].kind = Entries[b].kind
    /\ out'.cmd = "cache_write_pointers" =>
           /\ DOMAIN EntriesAfter = DOMAIN Entries \cup {out'.block}
           /\ EntriesAfter[out'.block].kind = "Pointers"
           /\ \A b \in DOMAIN Entries \ {out'.block} : EntriesAfter[b] = Entries[b]

C18_KindKeptByReads == [][C18_KindStep]_vars

C18_Witness ==
    /\ out.cmd = "cache_write_pointers"
    /\ test.first[out.block] = "Block" /\ Fs.entries[out.block].kind = "Pointers"


\* The master block without its flags.
Geometry(mb) == [mb EXCEPT !.flags = 0]

\* C19: FileSystem::write leaves block 0 and the MasterBlock in memory as
\* they were, and no call of a session changes a field of the master block
\* other than the flags, in memory or on the device.
C19_WriteStep ==
    /\ (out'.cmd = "write" /\ IsSome(current_fs')) =>
           /\ OnDisk(disk', TestFile) = OnDisk(disk, TestFile)
           /\ Get(current_fs').master_block = Fs.master_block
    /\ Geometry(OnDisk(disk', TestFile)) = Geometry(OnDisk(disk, TestFile))
    /\ (IsSome(current_fs) /\ IsSome(current_fs')) =>
           Geometry(Get(current_fs').master_block) = Geometry(Fs.master_block)

C19_MasterBlockFrame == [][C19_WriteStep]_vars


\* C20: a call of alloc_block_num_from_offset with an offset at or beyond
\* the reach of the inode, made while the block map has a free block P
\* (the lowest one), sets bit P, caches at P a Pointers entry of
\* block_size / 8 slots that holds the previous block_ptrs of the inode
\* followed by zeros, makes the block_ptrs of the inode [P, 0, ..., 0] and
\* adds one to its level.
C20_GrowStep ==
    (/\ out'.cmd = "alloc" /\ ~out'.in_reach
     /\ IsSome(current_fs) /\ IsSome(current_fs') /\ HasFree(Fs.block_map)) =>
        LET before == Fs.inode_map[out'.inode_num + 1]
            after  == Get(current_fs').inode_map[out'.inode_num + 1]
            P      == find_free(Fs.block_map)
            cached == Get(current_fs').entries
        IN  /\ after.level = before.level + 1
            /\ after.block_ptrs = [k \in 1..BLOCK_PTRS |-> IF k = 1 THEN P ELSE 0]
            /\ Get(current_fs').block_map[P + 1]
            /\ P \in DOMAIN cached
            /\ cached[P].kind = "Pointers"
            /\ Len(cached[P].pointers) = Fs.device.block_size \div 8
            /\ \A k \in 1..Len(cached[P].pointers) :
                   cached[P].pointers[k] = IF k <= BLOCK_PTRS THEN before.block_ptrs[k] ELSE 0

C20_GrowsOneLevel == [][C20_GrowStep]_vars

C20_Witness ==
    /\ out.cmd = "alloc" /\ ~out.in_reach /\ out.offset = BLOCK_PTRS /\ IsSome(current_fs)
    /\ Fs.inode_map[out.inode_num + 1].level = 1
    /\ \E k \in 1..BLOCK_PTRS :
           Fs.entries[Fs.inode_map[out.inode_num + 1].block_ptrs[1]].pointers[k] # 0


\* The reach of an inode at a level: 8 * (block_size / 8) ^ level offsets.
Reach(device, level) == BLOCK_PTRS * block_numbers_per_level(device, level)

\* C21: a call of lookup_block_num_from_offset with an offset at or beyond
\* the reach of the inode returns the Overflow error, at every level; a
\* call of alloc_block_num_from_offset with an offset that is still at or
\* beyond the reach after the growth by one level, made while the block
\* map has a free block for that growth, returns the Overflow error.
\* Neither call panics or returns a block.
C21_OverflowStep ==
    /\ (/\ out'.cmd = "lookup" /\ IsSome(current_fs)
        /\ out'.offset >= Reach(Fs.device, Fs.inode_map[out'.inode_num + 1].level))
           => out'.res = Err("Overflow")
    /\ (/\ out'.cmd = "alloc" /\ IsSome(current_fs) /\ HasFree(Fs.block_map)
        /\ out'.offset >= Reach(Fs.device, Fs.inode_map[out'.inode_num + 1].level + 1))
           => out'.res = Err("Overflow")

C21_OutOfReachIsOverflow == [][C21_OverflowStep]_vars


\* C22: inode_map.alloc(flags) takes the lowest slot whose flags are
\* exactly FREE, sets the flags of that slot to the given flags, leaves
\* every other slot as it was and returns the index of the slot; when no
\* slot is FREE it returns None and leaves the map as it was.
\* inode_map.free(i) sets the flags of slot i to FREE and leaves every
\* other slot as it was.  Slot 0 is taken like any other slot.
C22_INodeStep ==
    LET before == Fs.inode_map
        after  == Get(current_fs').inode_map
        free   == {k \in 1..Len(before) : before[k].flags = FREE}
    IN  /\ (out'.cmd = "inode_alloc" /\ free # {}) =>
               \E k \in free :
                   /\ \A j \in free : k <= j
                   /\ out'.result = Some(k - 1)
                   /\ after[k].flags = out'.flags
                   /\ \A j \in 1..Len(before) : j # k => after[j] = before[j]
        /\ (out'.cmd = "inode_alloc" /\ free = {}) =>
               out'.result = None /\ after = before
        /\ out'.cmd = "inode_free" =>
               /\ after[out'.inode_num + 1].flags = FREE
               /\ \A j \in 1..Len(before) : j # out'.inode_num + 1 => after[j] = before[j]

C22_INodeMapAllocFree == [][C22_INodeStep]_vars

\* An alloc that passed over slot 0, whose flags contain FREE and more.
C22_Witness ==
    /\ out.cmd = "inode_alloc" /\ out.flags = FILE /\ out.result = Some(1)
    /\ Fs.inode_map[1].flags = FREE + FILE
    /\ Fs.inode_map[1 + 1].flags = FILE


\* Two buffers with the same bytes.
SameBuf(a, b) == a.len = b.len /\ Trim(a.bytes) = Trim(b.bytes)

\* C23: after a create, a read of a block b below the count of the device
\* into a buffer of block_size bytes succeeds and, when b was written
\* through the device, yields the buffer of the last successful write to
\* b; a write to b leaves what a read of any other block yields as it was.
C23_ReadWriteStep ==
    (IsSome(test.device) /\ out'.cmd \in {"read", "write"}) =>
        LET device == Get(test.device)
            b      == out'.block_num
        IN  /\ (out'.cmd = "read" /\ b < device.block_count /\ out'.len = device.block_size) =>
                   /\ out'.status = "ok"
                   /\ IsSome(test.last[b + 1]) => SameBuf(out'.buf, Get(test.last[b + 1]))
            /\ out'.cmd = "write" =>
                   \A c \in DevBlocks :
                       (c # b /\ c < device.block_count) =>
                           DeviceRead(disk', device, c, device.block_size)
                               = DeviceRead(disk, device, c, device.block_size)

C23_ReadReturnsLastWrite == [][C23_ReadWriteStep]_vars

\* A read of block 0 that yields what was written to it, after a later
\* write of another buffer to block 1.
C23_Witness ==
    /\ out.cmd = "read" /\ out.status = "ok" /\ out.block_num = 0
    /\ IsSome(test.last[1]) /\ IsSome(test.last[1 + 1])
    /\ out.buf = Get(test.last[1])
    /\ ~SameBuf(Get(test.last[1]), Get(test.last[1 + 1]))
    /\ test.pos = DevSize


\* C24: a read or a write with a block number at or beyond the count of
\* the device, or with a buffer whose length is not the block size, fails
\* with a Size error, leaves the file handle where it was and leaves the
\* contents of the device as they were.
C24_SizeStep ==
    (/\ IsSome(test.device) /\ out'.cmd \in {"read", "write"}
     /\ \/ out'.block_num >= Get(test.device).block_count
        \/ out'.len # Get(test.device).block_size) =>
        /\ out'.status = "error" /\ out'.err = "Size"
        /\ test'.pos = test.pos
        /\ disk' = disk

C24_SizeErrorBeforeIo == [][C24_SizeStep]_vars

\* A refused write of a short buffer to a block of the device that holds
\* an earlier write.
C24_Witness ==
    /\ out.cmd = "write" /\ out.status = "error" /\ out.err = "Size"
    /\ IsSome(test.device)
    /\ out.block_num < Get(test.device).block_count
    /\ out.len < Get(test.device).block_size
    /\ IsSome(test.last[out.block_num + 1])


\* C25: a create with count 0 or size 0 fails with a Size error and leaves
\* every file as it was, missing ones included.  Any other create takes
\* 1024 as the size when none is given and leaves the file
\* <path>.<size>.dev with a length of size * count bytes, or with the
\* length it already had when that was larger.
C25_CreateStep ==
    out'.cmd = "create" =>
        LET size == IF IsSome(out'.optional_size) THEN Get(out'.optional_size) ELSE 1024
            file == DeviceFile(DevStem, size)
        IN  IF out'.count = 0 \/ size = 0
            THEN out'.status = "error" /\ out'.err = "Size" /\ disk' = disk
            ELSE /\ out'.status = "ok"
                 /\ Get(test'.device).file = file
                 /\ Get(test'.device).block_size = size
                 /\ IsSome(disk'[file])
                 /\ Get(disk'[file]).len = Max(size * out'.count, FileLen(disk, file))
                 /\ \A g \in DevFiles : g # file => disk'[g] = disk[g]

C25_CreateLength == [][C25_CreateStep]_vars

\* C25 as stated: after a successful create the backing file is exactly
\* size * count bytes long.
C25_ExactLength ==
    (out.cmd = "create" /\ out.status = "ok") =>
        Get(disk[Get(test.device).file]).len
            = Get(test.device).block_size * Get(test.device).block_count

\* A create over a longer file.
C25_Witness ==
    /\ out.cmd = "create" /\ out.status = "ok"
    /\ out.old_len > Get(test.device).block_size * Get(test.device).block_count
    /\ Get(disk[Get(test.device).file]).len = out.old_len


\* The bytes of every block of every file of d; a missing file has none.
Contents(d) ==
    [f \in DOMAIN d |-> IF IsSome(d[f]) THEN Get(d[f]).blocks ELSE <<>>]

\* d2 holds the blocks of d1 and, past them, blocks of zeros only.
OnlyZerosAdded(d1, d2) ==
    \A f \in DOMAIN d1 :
        /\ Len(Contents(d1)[f]) <= Len(Contents(d2)[f])
        /\ \A k \in 1..Len(Contents(d2)[f]) :
               Contents(d2)[f][k] = IF k <= Len(Contents(d1)[f]) THEN Contents(d1)[f][k]
                                    ELSE <<>>

\* C26: a newfs with a block size below 128 reports an error and writes no
\* master block, bitmap or inode table; every other newfs that
\* BlockDevice::create accepts builds the file system and closes it, which
\* leaves SYNCED = TRUE on the device.  No newfs changes the mounted file
\* system of the session.
C26_NewFsStep ==
    out'.cmd = "newfs" =>
        /\ current_fs' = current_fs
        /\ ("block_size" \in DOMAIN out' /\ out'.block_size < MIN_BLOCK_SIZE) =>
               out'.status = "error" /\ OnlyZerosAdded(disk, disk')
        /\ out'.status # "error" =>
               out'.status = "ok" /\ SyncedOn(disk', out'.file)

C26_NewFsRefusesSmallBlocks == [][C26_NewFsStep]_vars


\* C27: INodeFlags::parse succeeds on exactly the five strings "0", "f",
\* "s", "d" and "D", and the flag it returns is one that the display of
\* the inode map prints as that same character; on every other string,
\* the empty one and the longer ones included, it fails with a Parse
\* error.
C27_ParseMatchesDisplay ==
    out.cmd = "parse" =>
        IF test.arg \in {<<"0">>, <<"f">>, <<"s">>, <<"d">>, <<"D">>}
        THEN out.res.tag = "ok" /\ display(out.res.val) = test.arg[1]
        ELSE out.res = Err("Parse")


\* A name of the form <stem>.<block_size>.dev: a stem without a '.', a
\* '.', the decimal digits of a u16, ".dev", and nothing more.
IsDeviceName(name) ==
    \E n \in 0..Len(name), m \in 1..Len(name) :
        LET stem   == SubSeq(name, 1, n)
            digits == SubSeq(name, n + 1 + 1, n + 1 + m)
        IN  /\ \A j \in 1..n : stem[j] # "."
            /\ Len(name) = n + 1 + m + Len(DevTag)
            /\ name[n + 1] = "."
            /\ \A j \in 1..m : IsDigit(digits[j])
            /\ FromStr(digits).tag = "ok"
            /\ SubSeq(name, n + 1 + m + 1, Len(name)) = DevTag

\* C28: DeviceConfig::parse of the name that file() produces for a stem
\* without a '.' and a block size returns that stem and that block size,
\* and DeviceConfig::parse of a name that is not of the form
\* <stem>.<block_size>.dev fails with a Parse error.
C28_NamesRoundTrip ==
    out.cmd = "parse" =>
        /\ out.name = DeviceConfigFile(test.stem, test.block_size) =>
               /\ out.res.tag = "ok"
               /\ out.res.val.path = test.stem
               /\ out.res.val.block_size = test.block_size
        /\ ~IsDeviceName(out.name) => out.res = Err("Parse")


\* C29: a call of alloc_block_num_from_offset that follows a call for the
\* same inode and offset which returned Some(b) returns Some(b) again and
\* leaves the block map as it was, at every level of the tree.
C29_RepeatStep ==
    (/\ out.cmd = "alloc" /\ out'.cmd = "alloc"
     /\ out'.inode_num = out.inode_num /\ out'.offset = out.offset
     /\ out.res.tag = "ok" /\ IsSome(out.res.val)
     /\ IsSome(current_fs) /\ IsSome(current_fs')) =>
        /\ out'.res = out.res
        /\ Get(current_fs').block_map = Fs.block_map

C29_AllocIdempotent == [][C29_RepeatStep]_vars


\* C30: a call of alloc_block_num_from_offset that returns an error leaves
\* the file system as it was before the call: the level, block_ptrs and
\* length of every inode, the block map and the cache.
C30_FailedAllocStep ==
    (out'.cmd = "alloc" /\ out'.res.tag = "err" /\ IsSome(current_fs)) =>
        /\ IsSome(current_fs')
        /\ Get(current_fs').inode_map = Fs.inode_map
        /\ Get(current_fs').block_map = Fs.block_map
        /\ Get(current_fs').entries = Fs.entries

C30_AllocAtomicOnFailure == [][C30_FailedAllocStep]_vars


\* The places of the file system that hold a non-zero block number: slot k
\* of the block_ptrs of inode i, and slot k of the Pointers entry cached at
\* block b.
PointerPlaces(fs) ==
    {<<"inode", i, k>> : i \in 1..Len(fs.inode_map), k \in 1..BLOCK_PTRS}
    \cup UNION {{<<"cache", b, k>> : k \in 1..Len(fs.entries[b].pointers)} :
                   b \in {c \in DOMAIN fs.entries : fs.entries[c].kind = "Pointers"}}

PointerAt(fs, p) ==
    IF p[1] = "inode" THEN fs.inode_map[p[2]].block_ptrs[p[3]]
    ELSE fs.entries[p[2]].pointers[p[3]]

Referenced(fs) == {p \in PointerPlaces(fs) : PointerAt(fs, p) # MASTER_BLOCK_NUMBER}

\* C31: in a session of inode_map.alloc and alloc_block_num_from_offset
\* calls, the non-zero block numbers held in the block_ptrs of the inodes
\* and in the cached pointer blocks are pairwise distinct, are marked used
\* in the block map and lie at or past inode_map_start + inode_count.
C31_PointersDistinct ==
    IsSome(current_fs) =>
        /\ \A p, q \in Referenced(Fs) : p # q => PointerAt(Fs, p) # PointerAt(Fs, q)
        /\ \A p \in Referenced(Fs) :
               /\ PointerAt(Fs, p) < Len(Fs.block_map)
               /\ Fs.block_map[PointerAt(Fs, p) + 1]
               /\ PointerAt(Fs, p) >= MetadataEnd(Fs.master_block)


\* C32: a call of alloc_block_num_from_offset adds at most one to the level
\* of the inode.  A call that returns None (the descent met a slot 0 at a
\* level above 0) takes no block for the hole and writes no pointer slot:
\* with the offset within reach the block map, the cache and the inodes
\* but for length are as before the call; with the offset out of reach
\* they differ from before by the growth alone, that is by the one block
\* P of the new root, its cache entry and the block_ptrs [P, 0, ..., 0].
C32_HoleStep ==
    (out'.cmd = "alloc" /\ IsSome(current_fs) /\ IsSome(current_fs')) =>
        LET before == Fs
            after  == Get(current_fs')
            i      == out'.inode_num + 1
            P      == find_free(before.block_map)
        IN  /\ after.inode_map[i].level <= before.inode_map[i].level + 1
            /\ \A j \in 1..Len(before.inode_map) :
                   j # i => after.inode_map[j] = before.inode_map[j]
            /\ (out'.res = Ok(None) /\ out'.in_reach) =>
                   /\ after.block_map = before.block_map
                   /\ after.entries = before.entries
                   /\ after.inode_map[i].block_ptrs = before.inode_map[i].block_ptrs
                   /\ after.inode_map[i].level = before.inode_map[i].level
            /\ (out'.res = Ok(None) /\ ~out'.in_reach) =>
                   /\ after.block_map = BlockMapSet(before.block_map, P, TRUE)
                   /\ DOMAIN after.entries = DOMAIN before.entries \cup {P}
                   /\ \A b \in DOMAIN before.entries : after.entries[b] = before.entries[b]
                   /\ after.inode_map[i].block_ptrs
                          = [k \in 1..BLOCK_PTRS |-> IF k = 1 THEN P ELSE 0]

C32_NoIntermediateBlocks == [][C32_HoleStep]_vars

\* A call within reach, on a tree of level 1 or more, that met a hole.
C32_Witness ==
    /\ out.cmd = "alloc" /\ out.in_reach /\ out.res = Ok(None) /\ IsSome(current_fs)
    /\ Fs.inode_map[out.inode_num + 1].level >= 1


\* C33: in a session of inode_map.alloc, inode_map.free and
\* alloc_block_num_from_offset calls, failed ones included, every inode
\* whose length is above 0 holds a non-zero entry in its block_ptrs.
C33_LengthHasPointer ==
    IsSome(current_fs) =>
        \A i \in 1..Len(Fs.inode_map) :
            Fs.inode_map[i].length > 0 =>
                \E k \in 1..BLOCK_PTRS : Fs.inode_map[i].block_ptrs[k] # 0

\* A failed call on an inode that holds blocks.
C33_Witness ==
    /\ out.cmd = "alloc" /\ out.res.tag = "err" /\ IsSome(current_fs)
    /\ Fs.inode_map[out.inode_num + 1].length > 0


\* C34: a call of alloc_block_num_from_offset adds one to the length of the
\* inode when it returns a data block that it took from the block map, and
\* leaves the length as it was when it returns a block that the offset
\* already held, returns None or fails.
C34_LengthStep ==
    (out'.cmd = "alloc" /\ IsSome(current_fs) /\ IsSome(current_fs')) =>
        LET before == Fs.inode_map[out'.inode_num + 1].length
            after  == Get(current_fs').inode_map[out'.inode_num + 1].length
            fresh  == /\ out'.res.tag = "ok" /\ IsSome(out'.res.val)
                      /\ ~Fs.block_map[Get(out'.res.val) + 1]
        IN  after = IF fresh THEN before + 1 ELSE before

C34_LengthCountsBlocks == [][C34_LengthStep]_vars


\* C35: a mount issued while a file system is mounted, when it succeeds,
\* puts in the slot the file system as FileSystem::read finds it on the
\* device, without a write to the device of the previous one other than
\* the SYNCED = FALSE of the read itself, so that device carries
\* SYNCED = FALSE after it; when it does not succeed, the previous file
\* system stays in the slot.
C35_MountStep ==
    (out'.cmd = "mount" /\ IsSome(current_fs)) =>
        LET previous == Fs.device.file
        IN  IF out'.status = "ok"
            THEN /\ IsSome(current_fs')
                 /\ Get(current_fs').block_map
                        = ReadBits(disk, Get(current_fs').device, OnDisk(disk, out'.file))
                 /\ previous # out'.file => disk'[previous] = disk[previous]
                 /\ \A k \in 1..Len(Get(disk[previous]).blocks) :
                        k # MASTER_BLOCK_NUMBER + 1 =>
                            Get(disk'[previous]).blocks[k] = Get(disk[previous]).blocks[k]
                 /\ ~SyncedOn(disk', previous)
            ELSE current_fs' = current_fs

C35_MountReplaces == [][C35_MountStep]_vars


\* C36: inode_map.alloc and inode_map.free change the flags and the mdate
\* of one slot and nothing else: the level, length and block_ptrs of every
\* inode, the block map and the cache are as before the call, and every
\* offset of every inode resolves as it did before the call.
C36_INodeFrameStep ==
    (out'.cmd \in {"inode_alloc", "inode_free"} /\ IsSome(current_fs)) =>
        LET before == Fs
            after  == Get(current_fs')
        IN  /\ after.block_map = before.block_map
            /\ after.entries = before.entries
            /\ \A j \in 1..Len(before.inode_map) :
                   after.inode_map[j] = [before.inode_map[j] EXCEPT
                                            !.flags = after.inode_map[j].flags,
                                            !.mdate = after.inode_map[j].mdate]
            /\ \A i \in InodeNums, o \in TreeOffsets :
                   lookup_block_num_from_offset(after, disk', i, o).res
                       = lookup_block_num_from_offset(before, disk, i, o).res

C36_INodeAllocFreeFrame == [][C36_INodeFrameStep]_vars

\* Slot 0, freed while it held a block, is handed out again and still
\* resolves offset 0 to that block.
C36_Witness ==
    /\ out.cmd = "inode_alloc" /\ out.result = Some(0) /\ IsSome(current_fs)
    /\ Fs.inode_map[1].length > 0
    /\ Fs.inode_map[1].level = 0
    /\ Fs.inode_map[1].block_ptrs[1] # 0
    /\ lookup_block_num_from_offset(Fs, disk, 0, 0).res = Ok(Some(Fs.inode_map[1].block_ptrs[1]))


\* C37: two successful calls of inode_map.alloc with no free between them
\* return different slots, whatever flags they are given.
C37_DistinctStep ==
    (/\ out.cmd = "inode_alloc" /\ IsSome(out.result)
     /\ out'.cmd = "inode_alloc" /\ IsSome(out'.result))
        => out'.result # out.result

C37_AllocDistinct == [][C37_DistinctStep]_vars


\* C38: the assertions on the metadata layout never fail: a newfs with a
\* block size of at least 128 on a device that has room for the metadata
\* does not panic, a mount or unmount of a formatted device does not
\* panic, and the bitmap blocks of a mounted file system end at or before
\* its inode table.
C38_LayoutStep ==
    /\ out'.cmd = "newfs" => out'.status # "panic"
    /\ (out'.cmd \in {"mount", "unmount"} /\ out'.status = "panic") =>
           \E f \in DOMAIN formatted : formatted[f] = None /\ IsSome(disk[f])
    /\ IsSome(current_fs') =>
           LET mb == Get(current_fs').master_block
           IN  mb.block_map + block_map_blocks(mb) <= mb.inode_map

C38_LayoutAssertionsHold == [][C38_LayoutStep]_vars


\* C39: a newfs with block_size >= 128 and block_count >= 1 neither panics
\* nor reports an error (a newfs that reports an error was given a smaller
\* block size, or a count for which no device is created), and a mount of
\* the device right after such a newfs succeeds with clean_mount = TRUE.
C39_NewFsStep ==
    /\ out'.cmd = "newfs" =>
           \/ out'.status = "ok"
           \/ /\ out'.status = "error"
              /\ out'.block_size < MIN_BLOCK_SIZE \/ disk' = disk
    /\ (out.cmd = "newfs" /\ out.status = "ok" /\ Mount(out.file)) =>
           out'.status = "ok" /\ out'.clean_mount

C39_NewFsAlwaysFormats == [][C39_NewFsStep]_vars


\* C40: while no file system is mounted, blockmap, alloc_block, free_block
\* and unmount only report that none is mounted: the slot stays empty and
\* no device changes.  After an unmount the slot is empty whether close
\* succeeded or not, and only a successful mount fills an empty slot.
C40_SlotStep ==
    /\ (~IsSome(current_fs)
        /\ out'.cmd \in {"blockmap", "alloc_block", "free_block", "unmount"}) =>
           /\ out'.status = "no_mount"
           /\ current_fs' = None
           /\ disk' = disk
    /\ out'.cmd = "unmount" => current_fs' = None
    /\ (~IsSome(current_fs) /\ IsSome(current_fs')) =>
           out'.cmd = "mount" /\ out'.status = "ok"

C40_NoMountRejected == [][C40_SlotStep]_vars

\* A free_block rejected after an unmount whose close failed.
C40_Witness ==
    /\ out.cmd = "free_block" /\ out.status = "no_mount"
    /\ current_fs = None
    /\ \E f \in Files : last_end[f] = "unclosed"

====
